---- MODULE Spec2Model ----
(***************************************************************************)
(* A model of the reed-solomon-16 crate: the Galois-field tables, the      *)
(* Naive engine, the HighRate / LowRate / DefaultRate encoder and decoder  *)
(* sessions with their working space, the result views and the one-call    *)
(* decode function.                                                        *)
(*                                                                         *)
(* Scaling.  The crate works in GF(2^16): tables of 65536 entries and a    *)
(* Walsh-Hadamard transform over 65536 elements in every decode, which an  *)
(* explicit-state checker cannot evaluate.  The model keeps every          *)
(* algorithm as written and instantiates the field one size down the same  *)
(* tower: GF(2^4) with the primitive polynomial x^4 + x + 1, and the       *)
(* Cantor basis obtained by the rule that also yields the crate's 16-bit   *)
(* constants (b0 = 1, b(i)^2 + b(i) = b(i-1), the even solution).  A       *)
(* field element is GF_BITS wide and a "byte" of a shard is half an        *)
(* element (BYTE_BITS), as u8 is half of the crate's u16 element.  Shard   *)
(* counts are therefore limited by GF_ORDER = 16 instead of 65536.  The     *)
(* crate lays a shard out in blocks of 64 bytes, 32 low bytes followed by  *)
(* 32 high bytes, and treats the 32 lanes of a block independently; the    *)
(* model keeps this layout with LANES = 2 lanes per block, so that a valid *)
(* shard size is a positive multiple of BLOCK_BYTES = 2 * LANES.           *)
(***************************************************************************)
EXTENDS Integers, Sequences, FiniteSets, TLC

\* ======================================================================
\* engine.rs - constants

GF_BITS == 4
GF_ORDER == 16
GF_MODULUS == 15
GF_POLYNOMIAL == 19
CANTOR_BASIS == <<1, 6, 2, 10>>

\* A byte of a shard holds half of a field element (u8 against u16).
BYTE_BITS == GF_BITS \div 2

\* Field elements per block of a shard, and bytes per block.
LANES == 2
BLOCK_BYTES == 2 * LANES

\* Width of the machine word (usize) the modular helpers wrap in.
WordBits == 16

\* ======================================================================
\* Integer helpers (std)

RECURSIVE Pow2(_)
Pow2(n) == IF n = 0 THEN 1 ELSE 2 * Pow2(n - 1)

BYTE_RANGE == Pow2(BYTE_BITS)
WordModulus == Pow2(WordBits)

\* a ^ b on naturals
RECURSIVE BitXor(_, _)
BitXor(a, b) ==
  IF a = 0 THEN b
  ELSE IF b = 0 THEN a
  ELSE (((a % 2) + (b % 2)) % 2) + 2 * BitXor(a \div 2, b \div 2)

Min(a, b) == IF a < b THEN a ELSE b
Max(a, b) == IF a > b THEN a ELSE b

\* usize::next_power_of_two (0 and 1 give 1)
RECURSIVE NextPow2From(_, _)
NextPow2From(n, p) == IF p >= n THEN p ELSE NextPow2From(n, 2 * p)
next_power_of_two(n) == NextPow2From(n, 1)

\* engine::checked_next_multiple_of, for b > 0 and no overflow
checked_next_multiple_of(a, b) ==
  LET x == a \div b
  IN (x + (IF a % b # 0 THEN 1 ELSE 0)) * b

Zeroes(n) == [i \in 0..(n - 1) |-> 0]

\* slice.len() of a function 0..n-1 -> T
Len2(f) == Cardinality(DOMAIN f)

\* A function as a table of its values.  TLC keeps a function constructor as
\* an expression and evaluates it again at every application; comparing the
\* function makes TLC tabulate it once.
Table(f) == IF f = f THEN f ELSE f

\* TRUE, once TLC has evaluated v.  The loops of the code are recursions
\* over the loop's variables; TLC leaves an argument unevaluated until it is
\* used, so a loop tests Evaluated(data) to compute every pass before the
\* next one instead of unwinding all of them at the end.
Evaluated(v) == v = v

\* ======================================================================
\* engine.rs - Galois field operations

\* add_mod without the carry folded back in: `sum as GfElement`
add_mod_plain(x, y) == (x + y) % GF_ORDER

add_mod(x, y) ==
  LET sum == x + y
  IN (sum + (sum \div GF_ORDER)) % GF_ORDER

sub_mod(x, y) ==
  LET dif == (x - y) % WordModulus
  IN ((dif + (dif \div GF_ORDER)) % WordModulus) % GF_ORDER

\* ======================================================================
\* engine/tables.rs

RECURSIVE LfsrLoop(_, _, _)
LfsrLoop(i, state, exp) ==
  IF i = GF_MODULUS THEN exp
  ELSE LET shifted == state * 2
           next == IF shifted >= GF_ORDER THEN BitXor(shifted, GF_POLYNOMIAL) ELSE shifted
       IN LfsrLoop(i + 1, next, [exp EXCEPT ![state] = i])

RECURSIVE CantorLoop(_, _, _)
CantorLoop(i, j, log) ==
  IF i = GF_BITS THEN log
  ELSE LET width == Pow2(i)
       IN IF j = width THEN CantorLoop(i + 1, 0, log)
          ELSE CantorLoop(i, j + 1,
                          [log EXCEPT ![j + width] = BitXor(log[j], CANTOR_BASIS[i + 1])])

RECURSIVE ExpInvLoop(_, _, _)
ExpInvLoop(i, log, exp) ==
  IF i = GF_ORDER THEN exp
  ELSE ExpInvLoop(i + 1, log, [exp EXCEPT ![log[i]] = i])

\* initialize_exp_log without `exp[0] = GF_MODULUS`
initialize_exp_log_unset ==
  LET exp1 == LfsrLoop(0, 1, Zeroes(GF_ORDER))
      log1 == CantorLoop(0, 0, Zeroes(GF_ORDER))
      log2 == [i \in 0..(GF_ORDER - 1) |-> exp1[log1[i]]]
      exp2 == ExpInvLoop(0, log2, exp1)
      exp3 == [exp2 EXCEPT ![GF_MODULUS] = exp2[0]]
  IN [exp |-> exp3, log |-> log2]

initialize_exp_log ==
  LET exp1 == [LfsrLoop(0, 1, Zeroes(GF_ORDER)) EXCEPT ![0] = GF_MODULUS]
      log1 == CantorLoop(0, 0, Zeroes(GF_ORDER))
      log2 == [i \in 0..(GF_ORDER - 1) |-> exp1[log1[i]]]
      exp2 == ExpInvLoop(0, log2, exp1)
      exp3 == [exp2 EXCEPT ![GF_MODULUS] = exp2[0]]
  IN [exp |-> exp3, log |-> log2]

Exp == initialize_exp_log.exp
Log == initialize_exp_log.log

\* tables::mul
mul(x, log_m, exp, log) ==
  IF x = 0 THEN 0 ELSE exp[add_mod(log[x], log_m)]

\* initialize_skew: the inner `while j < s` loop
RECURSIVE SkewFillJ(_, _, _, _, _)
SkewFillJ(skew, j, s, step, t) ==
  IF j < s THEN SkewFillJ([skew EXCEPT ![j + s] = BitXor(skew[j], t)], j + step, s, step, t)
  ELSE skew

\* initialize_skew: `for i in m..GF_BITS - 1`
RECURSIVE SkewFillI(_, _, _, _)
SkewFillI(skew, temp, m, i) ==
  IF i < GF_BITS - 1
  THEN SkewFillI(SkewFillJ(skew, Pow2(m) - 1, Pow2(i + 1), Pow2(m + 1), temp[i]),
                 temp, m, i + 1)
  ELSE skew

\* initialize_skew: `for i in m + 1..GF_BITS - 1`
RECURSIVE SkewTempI(_, _, _)
SkewTempI(temp, m, i) ==
  IF i < GF_BITS - 1
  THEN LET sum == add_mod(Log[BitXor(temp[i], 1)], temp[m])
       IN SkewTempI([temp EXCEPT ![i] = mul(temp[i], sum, Exp, Log)], m, i + 1)
  ELSE temp

\* initialize_skew: `for m in 0..GF_BITS - 1`
RECURSIVE SkewLoopM(_, _, _)
SkewLoopM(skew, temp, m) ==
  IF m < GF_BITS - 1
  THEN LET skew1 == [skew EXCEPT ![Pow2(m) - 1] = 0]
           skew2 == SkewFillI(skew1, temp, m, m)
           tm == GF_MODULUS - Log[mul(temp[m], Log[BitXor(temp[m], 1)], Exp, Log)]
           temp1 == [temp EXCEPT ![m] = tm]
           temp2 == SkewTempI(temp1, m, m + 1)
       IN SkewLoopM(skew2, temp2, m + 1)
  ELSE skew

initialize_skew ==
  LET temp0 == [i \in 0..(GF_BITS - 2) |-> Pow2(i + 1)]
      skew1 == SkewLoopM(Zeroes(GF_MODULUS), temp0, 0)
  IN [i \in 0..(GF_MODULUS - 1) |-> Log[skew1[i]]]

Skew == initialize_skew

\* The engine of the session and the tables it reads: the statics EXP_LOG,
\* SKEW, LOG_WALSH and MUL16, which Naive::new and NoSimd::new initialize
\* before the first operation of a session.
\* [engine, exp, log, skew, log_walsh, mul16]
VARIABLE tables

\* ======================================================================
\* engine/engine_naive.rs - operations on one shard, a function
\* 0..shard_bytes-1 -> byte.  A block of BLOCK_BYTES bytes holds LANES field
\* elements: the low bytes first, the high bytes LANES further.

\* x ^ y on bytes and field elements, tabulated
XorTable == [a \in 0..(GF_ORDER - 1) |-> [b \in 0..(GF_ORDER - 1) |-> BitXor(a, b)]]

\* tables::mul of every element of shard y, indexed by (block, lane)
ShardProducts(y, log_m) ==
  Table([e \in 0..((Len2(y) \div 2) - 1) |->
           LET pos == (e \div LANES) * BLOCK_BYTES
               i == e % LANES
               lo == y[pos + i]
               hi == y[pos + i + LANES]
           IN mul(lo + (hi * BYTE_RANGE), log_m, tables.exp, tables.log)])

\* the byte of a product that lands at offset j of the shard
ProductByte(prods, j) ==
  LET prod == prods[((j \div BLOCK_BYTES) * LANES) + (j % LANES)]
  IN IF j % BLOCK_BYTES < LANES THEN prod % BYTE_RANGE ELSE prod \div BYTE_RANGE

Naive_mul(x, log_m) ==
  LET prods == ShardProducts(x, log_m)
  IN Table([j \in DOMAIN x |-> ProductByte(prods, j)])

Naive_xor(x, y) == Table([j \in DOMAIN x |-> XorTable[x[j]][y[j]]])

Naive_mul_add(x, y, log_m) ==
  LET prods == ShardProducts(y, log_m)
  IN Table([j \in DOMAIN x |-> XorTable[x[j]][ProductByte(prods, j)]])

\* ======================================================================
\* engine/engine_naive.rs - transforms over the shard array `data`
\* (a function 0..shard_count-1 -> shard)

\* FFT BUTTERFLY on data[pos], data[pos + dist]
Naive_fft_butterfly(data, pos, dist, log_m) ==
  LET a0 == data[pos]
      b0 == data[pos + dist]
      a1 == IF log_m # GF_MODULUS THEN Naive_mul_add(a0, b0, log_m) ELSE a0
      b1 == Naive_xor(b0, a1)
  IN [data EXCEPT ![pos] = a1, ![pos + dist] = b1]

\* the ifft butterfly that runs the fft butterfly's steps: the
\* multiplication first, the XOR after it
Naive_ifft_butterfly_forward(data, pos, dist, log_m) ==
  Naive_fft_butterfly(data, pos, dist, log_m)

\* IFFT BUTTERFLY on data[pos], data[pos + dist]
Naive_ifft_butterfly(data, pos, dist, log_m) ==
  LET a0 == data[pos]
      b1 == Naive_xor(data[pos + dist], a0)
      a1 == IF log_m # GF_MODULUS THEN Naive_mul_add(a0, b1, log_m) ELSE a0
  IN [data EXCEPT ![pos] = a1, ![pos + dist] = b1]

\* fft: `for i in r..r + dist`
RECURSIVE Naive_fft_i(_, _, _, _, _, _)
Naive_fft_i(data, pos, dist, i, end, log_m) ==
  IF i < end /\ Evaluated(data)
  THEN Naive_fft_i(Naive_fft_butterfly(data, pos + i, dist, log_m), pos, dist, i + 1, end, log_m)
  ELSE data

\* fft: `while r < truncated_size`
RECURSIVE Naive_fft_r(_, _, _, _, _, _)
Naive_fft_r(data, pos, dist, r, truncated_size, skew_delta) ==
  IF r < truncated_size /\ Evaluated(data)
  THEN Naive_fft_r(Naive_fft_i(data, pos, dist, r, r + dist, tables.skew[r + dist + skew_delta - 1]),
                   pos, dist, r + (dist * 2), truncated_size, skew_delta)
  ELSE data

\* fft: `while dist > 0`
RECURSIVE Naive_fft_dist(_, _, _, _, _)
Naive_fft_dist(data, pos, dist, truncated_size, skew_delta) ==
  IF dist > 0 /\ Evaluated(data)
  THEN Naive_fft_dist(Naive_fft_r(data, pos, dist, 0, truncated_size, skew_delta),
                      pos, dist \div 2, truncated_size, skew_delta)
  ELSE data

\* fft that stops one block short: `while r + 1 < truncated_size`
Naive_fft_short(data, pos, size, truncated_size, skew_delta) ==
  Naive_fft_dist(data, pos, size \div 2, truncated_size - 1, skew_delta)

Naive_fft(data, pos, size, truncated_size, skew_delta) ==
  Naive_fft_dist(data, pos, size \div 2, truncated_size, skew_delta)

\* ifft: `for i in r..r + dist`
RECURSIVE Naive_ifft_i(_, _, _, _, _, _)
Naive_ifft_i(data, pos, dist, i, end, log_m) ==
  IF i < end /\ Evaluated(data)
  THEN Naive_ifft_i(Naive_ifft_butterfly(data, pos + i, dist, log_m), pos, dist, i + 1, end, log_m)
  ELSE data

\* ifft: `while r < truncated_size`
RECURSIVE Naive_ifft_r(_, _, _, _, _, _)
Naive_ifft_r(data, pos, dist, r, truncated_size, skew_delta) ==
  IF r < truncated_size /\ Evaluated(data)
  THEN Naive_ifft_r(Naive_ifft_i(data, pos, dist, r, r + dist, tables.skew[r + dist + skew_delta - 1]),
                    pos, dist, r + (dist * 2), truncated_size, skew_delta)
  ELSE data

\* ifft: `while dist < size`
RECURSIVE Naive_ifft_dist(_, _, _, _, _, _)
Naive_ifft_dist(data, pos, dist, size, truncated_size, skew_delta) ==
  IF dist < size /\ Evaluated(data)
  THEN Naive_ifft_dist(Naive_ifft_r(data, pos, dist, 0, truncated_size, skew_delta),
                       pos, dist * 2, size, truncated_size, skew_delta)
  ELSE data

\* ifft that stops one block short: `while r + 1 < truncated_size`
Naive_ifft_short(data, pos, size, truncated_size, skew_delta) ==
  Naive_ifft_dist(data, pos, 1, size, truncated_size - 1, skew_delta)

Naive_ifft(data, pos, size, truncated_size, skew_delta) ==
  Naive_ifft_dist(data, pos, 1, size, truncated_size, skew_delta)

\* fwht: `for i in r..r + dist`, over [GfElement; GF_ORDER]
RECURSIVE Naive_fwht_i(_, _, _, _)
Naive_fwht_i(data, dist, i, end) ==
  IF i < end /\ Evaluated(data)
  THEN LET sum == add_mod(data[i], data[i + dist])
           dif == sub_mod(data[i], data[i + dist])
       IN Naive_fwht_i([data EXCEPT ![i] = sum, ![i + dist] = dif], dist, i + 1, end)
  ELSE data

\* fwht: `while r < truncated_size`
RECURSIVE Naive_fwht_r(_, _, _, _)
Naive_fwht_r(data, dist, r, truncated_size) ==
  IF r < truncated_size /\ Evaluated(data)
  THEN Naive_fwht_r(Naive_fwht_i(data, dist, r, r + dist), dist, r + (dist * 2), truncated_size)
  ELSE data

\* fwht: `while dist < GF_ORDER`
RECURSIVE Naive_fwht_dist(_, _, _)
Naive_fwht_dist(data, dist, truncated_size) ==
  IF dist < GF_ORDER /\ Evaluated(data)
  THEN Naive_fwht_dist(Naive_fwht_r(data, dist, 0, truncated_size), dist * 2, truncated_size)
  ELSE data

Naive_fwht(data, truncated_size) == Naive_fwht_dist(data, 1, truncated_size)

\* ======================================================================
\* engine/tables.rs - initialize_mul16

\* A nibble is half a byte; a field element is four nibbles.
NIBBLE_BITS == BYTE_BITS \div 2
NIBBLE_RANGE == Pow2(NIBBLE_BITS)

\* initialize_mul16 with every nibble taken as the lowest one:
\* mul16[log_m][n][i] = mul(i, log_m)
initialize_mul16_unshifted ==
  [log_m \in 0..GF_MODULUS |->
     [n \in 0..3 |->
        [i \in 0..(NIBBLE_RANGE - 1) |-> mul(i, log_m, Exp, Log)]]]

\* mul16[log_m][n][i] = mul(i << (n * NIBBLE_BITS), log_m)
initialize_mul16 ==
  [log_m \in 0..GF_MODULUS |->
     [n \in 0..3 |->
        [i \in 0..(NIBBLE_RANGE - 1) |-> mul(i * Pow2(n * NIBBLE_BITS), log_m, Exp, Log)]]]

Mul16 == initialize_mul16

\* ======================================================================
\* engine/engine_nosimd.rs - operations on one shard

\* bytes of the words NoSimd::xor casts a shard to (a u64 is an eighth of a
\* block of 64 bytes; here half a block of BLOCK_BYTES)
WORD_BYTES == BLOCK_BYTES \div 2

\* the lookup of NoSimd::mul and NoSimd::mul_add for every element of shard
\* y, indexed by (block, lane)
NoSimd_products(y, lut) ==
  Table([e \in 0..((Len2(y) \div 2) - 1) |->
           LET pos == (e \div LANES) * BLOCK_BYTES
               i == e % LANES
               lo == y[pos + i]
               hi == y[pos + i + LANES]
           IN XorTable[XorTable[lut[0][lo % NIBBLE_RANGE]][lut[1][lo \div NIBBLE_RANGE]]]
                      [XorTable[lut[2][hi % NIBBLE_RANGE]][lut[3][hi \div NIBBLE_RANGE]]]])

NoSimd_mul(x, log_m) ==
  LET prods == NoSimd_products(x, tables.mul16[log_m])
  IN Table([j \in DOMAIN x |-> ProductByte(prods, j)])

\* a shard cast to words: bytemuck::cast_slice_mut
NoSimd_cast_slice(x) ==
  [w \in 0..((Len2(x) \div WORD_BYTES) - 1) |->
     x[w * WORD_BYTES] + (BYTE_RANGE * x[(w * WORD_BYTES) + 1])]

\* the bytes of the words x64, over the offsets of shard x
NoSimd_bytes_of(x64, x) ==
  Table([j \in DOMAIN x |->
           IF j % WORD_BYTES = 0
           THEN x64[j \div WORD_BYTES] % BYTE_RANGE
           ELSE x64[j \div WORD_BYTES] \div BYTE_RANGE])

\* `for i in 0..x64.len() { x64[i] ^= y64[i] }`
NoSimd_xor_words(x64, y64) == Table([w \in DOMAIN x64 |-> XorTable[x64[w]][y64[w]]])

\* xor over the shards cast to words
NoSimd_xor(x, y) ==
  NoSimd_bytes_of(NoSimd_xor_words(NoSimd_cast_slice(x), NoSimd_cast_slice(y)), x)

NoSimd_mul_add(x, y, log_m) ==
  LET prods == NoSimd_products(y, tables.mul16[log_m])
  IN Table([j \in DOMAIN x |-> XorTable[x[j]][ProductByte(prods, j)]])

\* ======================================================================
\* engine.rs - trait Engine: the required methods of the engine E, "Naive"
\* or "NoSimd", and the provided methods that the transforms use

Engines == {"Naive", "NoSimd"}

Engine_mul(E, x, log_m) ==
  IF E = "Naive" THEN Naive_mul(x, log_m) ELSE NoSimd_mul(x, log_m)

Engine_xor(E, x, y) ==
  IF E = "Naive" THEN Naive_xor(x, y) ELSE NoSimd_xor(x, y)

\* xor_within with the ranges exchanged: data[y + i] ^= data[x + i]
xor_within_exchanged(E, data, x, y, count) ==
  Table([p \in DOMAIN data |->
           IF p >= y /\ p < y + count THEN Engine_xor(E, data[p], data[(p - y) + x]) ELSE data[p]])

\* xor_within: data[x + i] ^= data[y + i] for i in 0..count (x + count <= y or
\* y + count <= x, as flat2_mut asserts)
xor_within(E, data, x, y, count) ==
  Table([p \in DOMAIN data |->
           IF p >= x /\ p < x + count THEN Engine_xor(E, data[p], data[(p - x) + y]) ELSE data[p]])

\* formal_derivative: `for i in 1..data.len()`
RECURSIVE formal_derivative_i(_, _, _, _)
formal_derivative_i(E, data, i, len) ==
  IF i < len /\ Evaluated(data)
  THEN LET width == (BitXor(i, i - 1) + 1) \div 2
       IN formal_derivative_i(E, xor_within(E, data, i - width, i, width), i + 1, len)
  ELSE data

\* formal_derivative over the first `len` shards (the caller's data.len())
formal_derivative(E, data, len) == formal_derivative_i(E, data, 1, len)

\* ======================================================================
\* engine/engine_nosimd.rs - FWHT over [GfElement; GF_ORDER]

\* fwht_2: (a, b) becomes (a + b, a - b)
NoSimd_fwht_2(a, b) == <<add_mod(a, b), sub_mod(a, b)>>

\* fwht_4(&mut data[i..], dist)
NoSimd_fwht_4(data, i, dist) ==
  LET first01 == NoSimd_fwht_2(data[i], data[i + dist])
      first23 == NoSimd_fwht_2(data[i + (dist * 2)], data[i + (dist * 3)])
      second02 == NoSimd_fwht_2(first01[1], first23[1])
      second13 == NoSimd_fwht_2(first01[2], first23[2])
  IN [data EXCEPT ![i] = second02[1], ![i + dist] = second13[1],
                  ![i + (dist * 2)] = second02[2], ![i + (dist * 3)] = second13[2]]

\* fwht_private, two layers: `for i in r..r + dist`
RECURSIVE NoSimd_fwht_i(_, _, _, _)
NoSimd_fwht_i(data, dist, i, end) ==
  IF i < end /\ Evaluated(data)
  THEN NoSimd_fwht_i(NoSimd_fwht_4(data, i, dist), dist, i + 1, end)
  ELSE data

\* fwht_private, two layers: `while r < truncated_size`
RECURSIVE NoSimd_fwht_r(_, _, _, _, _)
NoSimd_fwht_r(data, dist, dist4, r, truncated_size) ==
  IF r < truncated_size /\ Evaluated(data)
  THEN NoSimd_fwht_r(NoSimd_fwht_i(data, dist, r, r + dist), dist, dist4, r + dist4,
                     truncated_size)
  ELSE data

\* fwht_private, final odd layer: `for i in 0..dist`
RECURSIVE NoSimd_fwht_odd_i(_, _, _)
NoSimd_fwht_odd_i(data, dist, i) ==
  IF i < dist /\ Evaluated(data)
  THEN LET sum == add_mod(data[i], data[i + dist])
           dif == sub_mod(data[i], data[i + dist])
       IN NoSimd_fwht_odd_i([data EXCEPT ![i] = sum, ![i + dist] = dif], dist, i + 1)
  ELSE data

\* fwht_private: `while dist4 <= GF_ORDER`, then `if dist < GF_ORDER`
RECURSIVE NoSimd_fwht_dist(_, _, _, _)
NoSimd_fwht_dist(data, dist, dist4, truncated_size) ==
  IF dist4 <= GF_ORDER /\ Evaluated(data)
  THEN NoSimd_fwht_dist(NoSimd_fwht_r(data, dist, dist4, 0, truncated_size),
                        dist4, dist4 * 4, truncated_size)
  ELSE IF dist < GF_ORDER THEN NoSimd_fwht_odd_i(data, dist, 0)
  ELSE data

NoSimd_fwht(data, truncated_size) == NoSimd_fwht_dist(data, 1, 4, truncated_size)

\* ======================================================================
\* engine/engine_nosimd.rs - FFT and IFFT over the shard array `data`

\* Self::xor with its arguments exchanged: data[x] ^= data[y]
NoSimd_xor_at_exchanged(data, y, x) == [data EXCEPT ![x] = NoSimd_xor(data[x], data[y])]

\* Self::xor(data[y], data[x])
NoSimd_xor_at(data, y, x) == [data EXCEPT ![y] = NoSimd_xor(data[y], data[x])]

\* self.mul_add(data[x], data[y], log_m)
NoSimd_mul_add_at(data, x, y, log_m) ==
  [data EXCEPT ![x] = NoSimd_mul_add(data[x], data[y], log_m)]

\* fft_butterfly_partial(data[x], data[y], log_m)
NoSimd_fft_butterfly_partial(data, x, y, log_m) ==
  NoSimd_xor_at(NoSimd_mul_add_at(data, x, y, log_m), y, x)

\* one butterfly of a layer: `if log_m == GF_MODULUS { xor } else { partial }`
NoSimd_fft_butterfly_layer(data, x, y, log_m) ==
  IF log_m = GF_MODULUS
  THEN NoSimd_xor_at(data, y, x)
  ELSE NoSimd_fft_butterfly_partial(data, x, y, log_m)

\* fft_butterfly_two_layers over dist4_mut(pos, dist)
NoSimd_fft_butterfly_two_layers(data, pos, dist, log_m01, log_m23, log_m02) ==
  NoSimd_fft_butterfly_layer(
    NoSimd_fft_butterfly_layer(
      NoSimd_fft_butterfly_layer(
        NoSimd_fft_butterfly_layer(data, pos, pos + (dist * 2), log_m02),
        pos + dist, pos + (dist * 3), log_m02),
      pos, pos + dist, log_m01),
    pos + (dist * 2), pos + (dist * 3), log_m23)

\* fft_private, two layers: `for i in r..r + dist`
RECURSIVE NoSimd_fft_i(_, _, _, _, _, _, _, _)
NoSimd_fft_i(data, pos, dist, i, end, log_m01, log_m23, log_m02) ==
  IF i < end /\ Evaluated(data)
  THEN NoSimd_fft_i(NoSimd_fft_butterfly_two_layers(data, pos + i, dist, log_m01, log_m23,
                                                    log_m02),
                    pos, dist, i + 1, end, log_m01, log_m23, log_m02)
  ELSE data

\* fft_private, two layers: `while r < truncated_size`
RECURSIVE NoSimd_fft_r(_, _, _, _, _, _, _)
NoSimd_fft_r(data, pos, dist, dist4, r, truncated_size, skew_delta) ==
  IF r < truncated_size /\ Evaluated(data)
  THEN LET base == r + dist + skew_delta - 1
       IN NoSimd_fft_r(NoSimd_fft_i(data, pos, dist, r, r + dist, tables.skew[base],
                                    tables.skew[base + (dist * 2)], tables.skew[base + dist]),
                       pos, dist, dist4, r + dist4, truncated_size, skew_delta)
  ELSE data

\* fft_private, final odd layer: `while r < truncated_size`
RECURSIVE NoSimd_fft_odd_r(_, _, _, _, _)
NoSimd_fft_odd_r(data, pos, r, truncated_size, skew_delta) ==
  IF r < truncated_size /\ Evaluated(data)
  THEN LET log_m == tables.skew[r + skew_delta]
           x == pos + r
           y == pos + r + 1
       IN NoSimd_fft_odd_r(NoSimd_fft_butterfly_layer(data, x, y, log_m),
                           pos, r + 2, truncated_size, skew_delta)
  ELSE data

\* fft_private: `while dist != 0`, then `if dist4 == 2`
RECURSIVE NoSimd_fft_dist(_, _, _, _, _, _)
NoSimd_fft_dist(data, pos, dist, dist4, truncated_size, skew_delta) ==
  IF dist # 0 /\ Evaluated(data)
  THEN NoSimd_fft_dist(NoSimd_fft_r(data, pos, dist, dist4, 0, truncated_size, skew_delta),
                       pos, dist \div 4, dist, truncated_size, skew_delta)
  ELSE IF dist4 = 2 THEN NoSimd_fft_odd_r(data, pos, 0, truncated_size, skew_delta)
  ELSE data

NoSimd_fft(data, pos, size, truncated_size, skew_delta) ==
  NoSimd_fft_dist(data, pos, size \div 4, size, truncated_size, skew_delta)

\* ifft_butterfly_partial(data[x], data[y], log_m)
NoSimd_ifft_butterfly_partial(data, x, y, log_m) ==
  NoSimd_mul_add_at(NoSimd_xor_at(data, y, x), x, y, log_m)

\* one butterfly of a layer: `if log_m == GF_MODULUS { xor } else { partial }`
NoSimd_ifft_butterfly_layer(data, x, y, log_m) ==
  IF log_m = GF_MODULUS
  THEN NoSimd_xor_at(data, y, x)
  ELSE NoSimd_ifft_butterfly_partial(data, x, y, log_m)

\* ifft_butterfly_two_layers over dist4_mut(pos, dist)
NoSimd_ifft_butterfly_two_layers(data, pos, dist, log_m01, log_m23, log_m02) ==
  NoSimd_ifft_butterfly_layer(
    NoSimd_ifft_butterfly_layer(
      NoSimd_ifft_butterfly_layer(
        NoSimd_ifft_butterfly_layer(data, pos, pos + dist, log_m01),
        pos + (dist * 2), pos + (dist * 3), log_m23),
      pos, pos + (dist * 2), log_m02),
    pos + dist, pos + (dist * 3), log_m02)

\* ifft_private, two layers: `for i in r..r + dist`
RECURSIVE NoSimd_ifft_i(_, _, _, _, _, _, _, _)
NoSimd_ifft_i(data, pos, dist, i, end, log_m01, log_m23, log_m02) ==
  IF i < end /\ Evaluated(data)
  THEN NoSimd_ifft_i(NoSimd_ifft_butterfly_two_layers(data, pos + i, dist, log_m01, log_m23,
                                                      log_m02),
                     pos, dist, i + 1, end, log_m01, log_m23, log_m02)
  ELSE data

\* ifft_private, two layers: `while r < truncated_size`
RECURSIVE NoSimd_ifft_r(_, _, _, _, _, _, _)
NoSimd_ifft_r(data, pos, dist, dist4, r, truncated_size, skew_delta) ==
  IF r < truncated_size /\ Evaluated(data)
  THEN LET base == r + dist + skew_delta - 1
       IN NoSimd_ifft_r(NoSimd_ifft_i(data, pos, dist, r, r + dist, tables.skew[base],
                                      tables.skew[base + (dist * 2)], tables.skew[base + dist]),
                        pos, dist, dist4, r + dist4, truncated_size, skew_delta)
  ELSE data

\* ifft_private, final odd layer: `for i in 0..dist`
RECURSIVE NoSimd_ifft_odd_i(_, _, _, _, _)
NoSimd_ifft_odd_i(data, pos, dist, i, log_m) ==
  IF i < dist /\ Evaluated(data)
  THEN NoSimd_ifft_odd_i(NoSimd_ifft_butterfly_partial(data, pos + i, pos + i + dist, log_m),
                         pos, dist, i + 1, log_m)
  ELSE data

\* ifft_private: `while dist4 <= size`, then `if dist < size`
RECURSIVE NoSimd_ifft_dist(_, _, _, _, _, _, _)
NoSimd_ifft_dist(data, pos, dist, dist4, size, truncated_size, skew_delta) ==
  IF dist4 <= size /\ Evaluated(data)
  THEN NoSimd_ifft_dist(NoSimd_ifft_r(data, pos, dist, dist4, 0, truncated_size, skew_delta),
                        pos, dist4, dist4 * 4, size, truncated_size, skew_delta)
  ELSE IF dist < size
  THEN LET log_m == tables.skew[dist + skew_delta - 1]
       IN IF log_m = GF_MODULUS
          THEN xor_within("NoSimd", data, pos + dist, pos, dist)
          ELSE NoSimd_ifft_odd_i(data, pos, dist, 0, log_m)
  ELSE data

NoSimd_ifft(data, pos, size, truncated_size, skew_delta) ==
  NoSimd_ifft_dist(data, pos, 1, 4, size, truncated_size, skew_delta)

\* ======================================================================
\* engine.rs - trait Engine: the transforms of the engine E

Engine_fft(E, data, pos, size, truncated_size, skew_delta) ==
  IF E = "Naive"
  THEN Naive_fft(data, pos, size, truncated_size, skew_delta)
  ELSE NoSimd_fft(data, pos, size, truncated_size, skew_delta)

Engine_ifft(E, data, pos, size, truncated_size, skew_delta) ==
  IF E = "Naive"
  THEN Naive_ifft(data, pos, size, truncated_size, skew_delta)
  ELSE NoSimd_ifft(data, pos, size, truncated_size, skew_delta)

Engine_fwht(E, data, truncated_size) ==
  IF E = "Naive" THEN Naive_fwht(data, truncated_size) ELSE NoSimd_fwht(data, truncated_size)

\* tables::initialize_log_walsh::<E>
initialize_log_walsh(E) == Engine_fwht(E, [Log EXCEPT ![0] = 0], GF_ORDER)

LogWalsh == initialize_log_walsh("Naive")

eval_poly(E, erasures, truncated_size) ==
  LET e1 == Engine_fwht(E, erasures, truncated_size)
      e2 == Table([i \in 0..(GF_ORDER - 1) |->
                     (e1[i] * tables.log_walsh[i]) % GF_MODULUS])
  IN Engine_fwht(E, e2, GF_ORDER)

\* FFT with `skew_delta = pos`, the start of the chunk
fft_skew_start(E, data, pos, size, truncated_size) ==
  Engine_fft(E, data, pos, size, truncated_size, pos)

fft_skew_end(E, data, pos, size, truncated_size) ==
  Engine_fft(E, data, pos, size, truncated_size, pos + size)

ifft_skew_end(E, data, pos, size, truncated_size) ==
  Engine_ifft(E, data, pos, size, truncated_size, pos + size)

\* Naive::new and NoSimd::new: the engine of a session, with the tables
\* that new has initialized before the first operation of the session
Engine_new(E) ==
  [engine |-> E, exp |-> Exp, log |-> Log, skew |-> Skew, log_walsh |-> LogWalsh,
   mul16 |-> Mul16]

\* ======================================================================
\* lib.rs - enum Error; results of calls

Ok == [kind |-> "Ok"]
Panic(msg) == [kind |-> "Panic", msg |-> msg]

DifferentShardSize(shard_bytes, got) ==
  [kind |-> "Err", err |-> "DifferentShardSize", shard_bytes |-> shard_bytes, got |-> got]
DuplicateOriginalShardIndex(index) ==
  [kind |-> "Err", err |-> "DuplicateOriginalShardIndex", index |-> index]
DuplicateRecoveryShardIndex(index) ==
  [kind |-> "Err", err |-> "DuplicateRecoveryShardIndex", index |-> index]
InvalidOriginalShardIndex(original_count, index) ==
  [kind |-> "Err", err |-> "InvalidOriginalShardIndex",
   original_count |-> original_count, index |-> index]
InvalidRecoveryShardIndex(recovery_count, index) ==
  [kind |-> "Err", err |-> "InvalidRecoveryShardIndex",
   recovery_count |-> recovery_count, index |-> index]
InvalidShardSize(shard_bytes) ==
  [kind |-> "Err", err |-> "InvalidShardSize", shard_bytes |-> shard_bytes]
NotEnoughShards(original_count, original_received_count, recovery_received_count) ==
  [kind |-> "Err", err |-> "NotEnoughShards", original_count |-> original_count,
   original_received_count |-> original_received_count,
   recovery_received_count |-> recovery_received_count]
TooFewOriginalShards(original_count, original_received_count) ==
  [kind |-> "Err", err |-> "TooFewOriginalShards", original_count |-> original_count,
   original_received_count |-> original_received_count]
TooManyOriginalShards(original_count) ==
  [kind |-> "Err", err |-> "TooManyOriginalShards", original_count |-> original_count]
UnsupportedShardCount(original_count, recovery_count) ==
  [kind |-> "Err", err |-> "UnsupportedShardCount",
   original_count |-> original_count, recovery_count |-> recovery_count]

\* ======================================================================
\* engine/shards.rs - Shards: shard_count shards of shard_bytes bytes each,
\* stored back to back in one Vec<u8>.  `data` is that vector seen through
\* Index<usize>: data[i] is the slice i * shard_bytes .. (i + 1) * shard_bytes.

Shards_new == [shard_count |-> 0, shard_bytes |-> 0, data |-> <<>>]

\* byte p of the underlying vector
Shards_byte(shards, p) == shards.data[p \div shards.shard_bytes][p % shards.shard_bytes]

\* Shards::resize: Vec::resize keeps the leading bytes and appends zeros
Shards_resize(shards, shard_count, shard_bytes) ==
  LET old_len == shards.shard_count * shards.shard_bytes
  IN [shard_count |-> shard_count,
      shard_bytes |-> shard_bytes,
      data |-> Table([i \in 0..(shard_count - 1) |->
                        [b \in 0..(shard_bytes - 1) |->
                           LET p == (i * shard_bytes) + b
                           IN IF p < old_len THEN Shards_byte(shards, p) ELSE 0]])]

\* zero that leaves the range as it is
zero_nothing(data, start, end) == data

\* ShardsRefMut::zero(start..end)
zero(data, start, end) ==
  Table([p \in DOMAIN data |->
           IF p >= start /\ p < end THEN [b \in DOMAIN data[p] |-> 0] ELSE data[p]])

\* ShardsRefMut::copy_within(src, dest, count), a memmove
copy_within(data, src, dest, count) ==
  Table([p \in DOMAIN data |->
           IF p >= dest /\ p < dest + count THEN data[(p - dest) + src] ELSE data[p]])

\* ======================================================================
\* rate/encoder_work.rs

EncoderWork_new ==
  [original_count |-> 0, recovery_count |-> 0, shard_bytes |-> 0,
   original_received_count |-> 0, shards |-> Shards_new]

\* add_original_shard that counts the shard before it has checked its size
EncoderWork_add_original_shard_counted_first(work, shard) ==
  IF work.original_received_count = work.original_count
  THEN [work |-> work, ret |-> TooManyOriginalShards(work.original_count)]
  ELSE IF Len2(shard) # work.shard_bytes
  THEN [work |-> [work EXCEPT !.original_received_count = @ + 1],
        ret |-> DifferentShardSize(work.shard_bytes, Len2(shard))]
  ELSE IF work.original_received_count >= work.shards.shard_count
  THEN [work |-> work, ret |-> Panic("range end index out of range for slice")]
  ELSE [work |-> [work EXCEPT
                    !.shards.data[work.original_received_count] = shard,
                    !.original_received_count = @ + 1],
        ret |-> Ok]

\* `shard` is the caller's slice, a function 0..len-1 -> byte
EncoderWork_add_original_shard(work, shard) ==
  IF work.original_received_count = work.original_count
  THEN [work |-> work, ret |-> TooManyOriginalShards(work.original_count)]
  ELSE IF Len2(shard) # work.shard_bytes
  THEN [work |-> work, ret |-> DifferentShardSize(work.shard_bytes, Len2(shard))]
  ELSE IF work.original_received_count >= work.shards.shard_count
  THEN [work |-> work, ret |-> Panic("range end index out of range for slice")]
  ELSE [work |-> [work EXCEPT
                    !.shards.data[work.original_received_count] = shard,
                    !.original_received_count = @ + 1],
        ret |-> Ok]

EncoderWork_encode_begin(work) ==
  IF work.original_received_count # work.original_count
  THEN TooFewOriginalShards(work.original_count, work.original_received_count)
  ELSE Ok

EncoderWork_recovery(work, index) ==
  IF index < work.recovery_count
  THEN [kind |-> "Some", shard |-> work.shards.data[index]]
  ELSE [kind |-> "None"]

EncoderWork_reset(work, original_count, recovery_count, shard_bytes, work_count) ==
  [original_count |-> original_count,
   recovery_count |-> recovery_count,
   shard_bytes |-> shard_bytes,
   original_received_count |-> 0,
   shards |-> Shards_resize(work.shards, work_count, shard_bytes)]

EncoderWork_reset_received(work) == [work EXCEPT !.original_received_count = 0]

\* ======================================================================
\* rate/decoder_work.rs.  `received` is a FixedBitSet: its length and the
\* set of positions whose bit is 1.

FixedBitSet_new == [length |-> 0, ones |-> {}]

\* Index<usize> / contains: a bit outside the length reads as false
FixedBitSet_contains(bits, pos) == pos \in bits.ones

FixedBitSet_clear(bits) == [bits EXCEPT !.ones = {}]

FixedBitSet_grow(bits, length) ==
  IF length > bits.length THEN [bits EXCEPT !.length = length] ELSE bits

DecoderWork_new ==
  [original_count |-> 0, recovery_count |-> 0, shard_bytes |-> 0,
   original_base_pos |-> 0, recovery_base_pos |-> 0,
   original_received_count |-> 0, recovery_received_count |-> 0,
   received |-> FixedBitSet_new, shards |-> Shards_new]

\* `base_pos + index` on usize: with overflow checks (the dev profile) an
\* overflowing sum panics, without them (the release profile) it wraps.
\* The profile is a property of the build; the operators take it as the
\* argument overflow_checks.
PosOverflows(base_pos, index) == base_pos + index >= WordModulus
WrappingPos(base_pos, index) == (base_pos + index) % WordModulus

DecoderWork_add_original_shard(work, index, shard, overflow_checks) ==
  LET pos == WrappingPos(work.original_base_pos, index)
  IN IF overflow_checks /\ PosOverflows(work.original_base_pos, index)
     THEN [work |-> work, ret |-> Panic("attempt to add with overflow")]
     ELSE IF index >= work.original_count
     THEN [work |-> work, ret |-> InvalidOriginalShardIndex(work.original_count, index)]
     ELSE IF FixedBitSet_contains(work.received, pos)
     THEN [work |-> work, ret |-> DuplicateOriginalShardIndex(index)]
     ELSE IF Len2(shard) # work.shard_bytes
     THEN [work |-> work, ret |-> DifferentShardSize(work.shard_bytes, Len2(shard))]
     ELSE IF pos >= work.shards.shard_count
     THEN [work |-> work, ret |-> Panic("range end index out of range for slice")]
     ELSE IF pos >= work.received.length
     THEN [work |-> [work EXCEPT !.shards.data[pos] = shard,
                                 !.original_received_count = @ + 1],
           ret |-> Panic("set at index exceeds fixedbitset size")]
     ELSE [work |-> [work EXCEPT !.shards.data[pos] = shard,
                                 !.original_received_count = @ + 1,
                                 !.received.ones = @ \cup {pos}],
           ret |-> Ok]

\* add_recovery_shard that stores the shard at the next free position of
\* the recovery region, in order of arrival, instead of at its index
DecoderWork_add_recovery_shard_in_arrival_order(work, index, shard, overflow_checks) ==
  LET pos == WrappingPos(work.recovery_base_pos, index)
      slot == work.recovery_base_pos + work.recovery_received_count
  IN IF overflow_checks /\ PosOverflows(work.recovery_base_pos, index)
     THEN [work |-> work, ret |-> Panic("attempt to add with overflow")]
     ELSE IF index >= work.recovery_count
     THEN [work |-> work, ret |-> InvalidRecoveryShardIndex(work.recovery_count, index)]
     ELSE IF FixedBitSet_contains(work.received, pos)
     THEN [work |-> work, ret |-> DuplicateRecoveryShardIndex(index)]
     ELSE IF Len2(shard) # work.shard_bytes
     THEN [work |-> work, ret |-> DifferentShardSize(work.shard_bytes, Len2(shard))]
     ELSE [work |-> [work EXCEPT !.shards.data[slot] = shard,
                                 !.recovery_received_count = @ + 1,
                                 !.received.ones = @ \cup {pos}],
           ret |-> Ok]

DecoderWork_add_recovery_shard(work, index, shard, overflow_checks) ==
  LET pos == WrappingPos(work.recovery_base_pos, index)
  IN IF overflow_checks /\ PosOverflows(work.recovery_base_pos, index)
     THEN [work |-> work, ret |-> Panic("attempt to add with overflow")]
     ELSE IF index >= work.recovery_count
     THEN [work |-> work, ret |-> InvalidRecoveryShardIndex(work.recovery_count, index)]
     ELSE IF FixedBitSet_contains(work.received, pos)
     THEN [work |-> work, ret |-> DuplicateRecoveryShardIndex(index)]
     ELSE IF Len2(shard) # work.shard_bytes
     THEN [work |-> work, ret |-> DifferentShardSize(work.shard_bytes, Len2(shard))]
     ELSE IF pos >= work.shards.shard_count
     THEN [work |-> work, ret |-> Panic("range end index out of range for slice")]
     ELSE IF pos >= work.received.length
     THEN [work |-> [work EXCEPT !.shards.data[pos] = shard,
                                 !.recovery_received_count = @ + 1],
           ret |-> Panic("set at index exceeds fixedbitset size")]
     ELSE [work |-> [work EXCEPT !.shards.data[pos] = shard,
                                 !.recovery_received_count = @ + 1,
                                 !.received.ones = @ \cup {pos}],
           ret |-> Ok]

\* decode_begin: Err, Ok(None) ("complete") or Ok(Some(..)) ("decode")
DecoderWork_decode_begin(work) ==
  IF work.original_received_count + work.recovery_received_count < work.original_count
  THEN NotEnoughShards(work.original_count, work.original_received_count,
                       work.recovery_received_count)
  ELSE IF work.original_received_count = work.original_count
  THEN [kind |-> "Ok", stuff |-> "None"]
  ELSE [kind |-> "Ok", stuff |-> "Some"]

\* reset without `self.received.clear()`
DecoderWork_reset_keeping_received(work, original_count, recovery_count, shard_bytes, original_base_pos, recovery_base_pos, work_count) ==
  LET max_received_pos == Max(original_base_pos + original_count,
                              recovery_base_pos + recovery_count)
  IN [original_count |-> original_count,
      recovery_count |-> recovery_count,
      shard_bytes |-> shard_bytes,
      original_base_pos |-> original_base_pos,
      recovery_base_pos |-> recovery_base_pos,
      original_received_count |-> 0,
      recovery_received_count |-> 0,
      received |-> FixedBitSet_grow(work.received, max_received_pos),
      shards |-> Shards_resize(work.shards, work_count, shard_bytes)]

DecoderWork_reset(work, original_count, recovery_count, shard_bytes, original_base_pos, recovery_base_pos, work_count) ==
  LET max_received_pos == Max(original_base_pos + original_count,
                              recovery_base_pos + recovery_count)
  IN [original_count |-> original_count,
      recovery_count |-> recovery_count,
      shard_bytes |-> shard_bytes,
      original_base_pos |-> original_base_pos,
      recovery_base_pos |-> recovery_base_pos,
      original_received_count |-> 0,
      recovery_received_count |-> 0,
      received |-> FixedBitSet_grow(FixedBitSet_clear(work.received), max_received_pos),
      shards |-> Shards_resize(work.shards, work_count, shard_bytes)]

\* reset_received without `self.received.clear()`
DecoderWork_reset_received_counts_only(work) ==
  [work EXCEPT !.original_received_count = 0,
               !.recovery_received_count = 0]

DecoderWork_reset_received(work) ==
  [work EXCEPT !.original_received_count = 0,
               !.recovery_received_count = 0,
               !.received = FixedBitSet_clear(@)]

DecoderWork_restored_original(work, index, overflow_checks) ==
  LET pos == WrappingPos(work.original_base_pos, index)
  IN IF overflow_checks /\ PosOverflows(work.original_base_pos, index)
     THEN Panic("attempt to add with overflow")
     ELSE IF index < work.original_count /\ ~FixedBitSet_contains(work.received, pos)
     THEN [kind |-> "Some", shard |-> work.shards.data[pos]]
     ELSE [kind |-> "None"]

\* ======================================================================
\* rate.rs, rate/rate_high.rs, rate/rate_low.rs - shard counts and sizes

\* HighRate::supports with the arena one shard short of the field:
\* `recovery_count.next_power_of_two() + original_count < GF_ORDER`
HighRate_supports_short(original_count, recovery_count) ==
  /\ original_count > 0
  /\ recovery_count > 0
  /\ original_count < GF_ORDER
  /\ recovery_count < GF_ORDER
  /\ next_power_of_two(recovery_count) + original_count < GF_ORDER

HighRate_supports(original_count, recovery_count) ==
  /\ original_count > 0
  /\ recovery_count > 0
  /\ original_count < GF_ORDER
  /\ recovery_count < GF_ORDER
  /\ next_power_of_two(recovery_count) + original_count <= GF_ORDER

LowRate_supports(original_count, recovery_count) ==
  /\ original_count > 0
  /\ recovery_count > 0
  /\ original_count < GF_ORDER
  /\ recovery_count < GF_ORDER
  /\ next_power_of_two(original_count) + recovery_count <= GF_ORDER

\* Rate::validate, given the result of Self::supports
Rate_validate(supported, original_count, recovery_count, shard_bytes) ==
  IF ~supported
  THEN UnsupportedShardCount(original_count, recovery_count)
  ELSE IF shard_bytes = 0 \/ shard_bytes % BLOCK_BYTES # 0
  THEN InvalidShardSize(shard_bytes)
  ELSE Ok

\* ======================================================================
\* rate/rate_high.rs - HighRateEncoder

HighRateEncoder_work_count(original_count, recovery_count) ==
  LET chunk_size == next_power_of_two(recovery_count)
  IN checked_next_multiple_of(original_count, chunk_size)

HighRateEncoder_reset_work(original_count, recovery_count, shard_bytes, work) ==
  LET valid == Rate_validate(HighRate_supports(original_count, recovery_count),
                             original_count, recovery_count, shard_bytes)
  IN IF valid # Ok
     THEN [work |-> work, ret |-> valid]
     ELSE [work |-> EncoderWork_reset(work, original_count, recovery_count, shard_bytes,
                      HighRateEncoder_work_count(original_count, recovery_count)),
           ret |-> Ok]

\* encode, FULL CHUNKS: `while chunk_start + chunk_size <= original_count`
RECURSIVE HighRateEncoder_full_chunks(_, _, _, _)
HighRateEncoder_full_chunks(data, chunk_start, chunk_size, original_count) ==
  IF chunk_start + chunk_size <= original_count
  THEN LET d1 == ifft_skew_end(tables.engine, data, chunk_start, chunk_size, chunk_size)
           d2 == xor_within(tables.engine, d1, 0, chunk_start, chunk_size)
       IN HighRateEncoder_full_chunks(d2, chunk_start + chunk_size, chunk_size, original_count)
  ELSE [data |-> data, chunk_start |-> chunk_start]

\* encode, FINAL PARTIAL CHUNK: `if last_count > 0`, after the full chunks
HighRateEncoder_final_chunk(full, shard_count, chunk_size, last_count) ==
  IF last_count > 0
  THEN xor_within(tables.engine,
                  ifft_skew_end(tables.engine,
                                zero(full.data, full.chunk_start + last_count, shard_count),
                                full.chunk_start, chunk_size, last_count),
                  0, full.chunk_start, chunk_size)
  ELSE full.data

\* encode, IFFT - FULL CHUNKS and FINAL PARTIAL CHUNK: `if original_count > chunk_size`
HighRateEncoder_other_chunks(data, work, chunk_size) ==
  IF work.original_count > chunk_size
  THEN HighRateEncoder_final_chunk(
         HighRateEncoder_full_chunks(data, chunk_size, chunk_size, work.original_count),
         work.shards.shard_count, chunk_size, work.original_count % chunk_size)
  ELSE data

HighRateEncoder_encode(work) ==
  LET begin == EncoderWork_encode_begin(work)
      chunk_size == next_power_of_two(work.recovery_count)
      first_count == Min(work.original_count, chunk_size)
  IN IF begin # Ok
     THEN [work |-> work, ret |-> begin]
     ELSE [work |->
             [work EXCEPT !.shards.data =
                Engine_fft(tables.engine,
                           HighRateEncoder_other_chunks(
                             ifft_skew_end(tables.engine,
                                           zero(work.shards.data, first_count, chunk_size),
                                           0, chunk_size, first_count),
                             work, chunk_size),
                           0, chunk_size, work.recovery_count, 0)],
           ret |-> Ok]

\* ======================================================================
\* rate/rate_low.rs - LowRateEncoder

LowRateEncoder_work_count(original_count, recovery_count) ==
  LET chunk_size == next_power_of_two(original_count)
  IN checked_next_multiple_of(recovery_count, chunk_size)

LowRateEncoder_reset_work(original_count, recovery_count, shard_bytes, work) ==
  LET valid == Rate_validate(LowRate_supports(original_count, recovery_count),
                             original_count, recovery_count, shard_bytes)
  IN IF valid # Ok
     THEN [work |-> work, ret |-> valid]
     ELSE [work |-> EncoderWork_reset(work, original_count, recovery_count, shard_bytes,
                      LowRateEncoder_work_count(original_count, recovery_count)),
           ret |-> Ok]

\* encode, COPY IFFT RESULT TO OTHER CHUNKS: `while chunk_start < recovery_count`
RECURSIVE LowRateEncoder_copy_chunks(_, _, _, _)
LowRateEncoder_copy_chunks(data, chunk_start, chunk_size, recovery_count) ==
  IF chunk_start < recovery_count
  THEN LowRateEncoder_copy_chunks(copy_within(data, 0, chunk_start, chunk_size),
                                  chunk_start + chunk_size, chunk_size, recovery_count)
  ELSE data

\* encode, FFT - FULL CHUNKS: `while chunk_start + chunk_size <= recovery_count`
RECURSIVE LowRateEncoder_full_chunks(_, _, _, _)
LowRateEncoder_full_chunks(data, chunk_start, chunk_size, recovery_count) ==
  IF chunk_start + chunk_size <= recovery_count
  THEN LowRateEncoder_full_chunks(fft_skew_end(tables.engine, data, chunk_start, chunk_size, chunk_size),
                                  chunk_start + chunk_size, chunk_size, recovery_count)
  ELSE [data |-> data, chunk_start |-> chunk_start]

\* encode, FFT - FINAL PARTIAL CHUNK: `if last_count > 0`, after the full chunks
LowRateEncoder_final_chunk(full, chunk_size, last_count) ==
  IF last_count > 0
  THEN fft_skew_end(tables.engine, full.data, full.chunk_start, chunk_size, last_count)
  ELSE full.data

LowRateEncoder_encode(work) ==
  LET begin == EncoderWork_encode_begin(work)
      chunk_size == next_power_of_two(work.original_count)
  IN IF begin # Ok
     THEN [work |-> work, ret |-> begin]
     ELSE [work |->
             [work EXCEPT !.shards.data =
                LowRateEncoder_final_chunk(
                  LowRateEncoder_full_chunks(
                    LowRateEncoder_copy_chunks(
                      Engine_ifft(tables.engine,
                                  zero(work.shards.data, work.original_count, chunk_size),
                                  0, chunk_size, work.original_count, 0),
                      chunk_size, chunk_size, work.recovery_count),
                    0, chunk_size, work.recovery_count),
                  chunk_size, work.recovery_count % chunk_size)],
           ret |-> Ok]

\* ======================================================================
\* rate/rate_high.rs, rate/rate_low.rs - steps shared by the two decoders

\* `for i in start..end { if !received[i] { erasures[i] = 1; } }`
mark_erasures(erasures, received, start, end) ==
  Table([i \in DOMAIN erasures |->
           IF i >= start /\ i < end /\ ~FixedBitSet_contains(received, i)
           THEN 1 ELSE erasures[i]])

\* `erasures[start..end].fill(1)`
fill_erasures(erasures, start, end) ==
  Table([i \in DOMAIN erasures |-> IF i >= start /\ i < end THEN 1 ELSE erasures[i]])

\* MULTIPLY SHARDS: `for i in start..end { if received[i] { mul } else { fill(0) } }`
multiply_shards(data, erasures, received, start, end) ==
  Table([p \in DOMAIN data |->
           IF p >= start /\ p < end
           THEN IF FixedBitSet_contains(received, p)
                THEN Engine_mul(tables.engine, data[p], erasures[p])
                ELSE [b \in DOMAIN data[p] |-> 0]
           ELSE data[p]])

\* REVEAL ERASURES with the logarithm of the error locator not negated
reveal_erasures_not_negated(data, erasures, received, start, end) ==
  Table([p \in DOMAIN data |->
           IF p >= start /\ p < end /\ ~FixedBitSet_contains(received, p)
           THEN Engine_mul(tables.engine, data[p], erasures[p])
           ELSE data[p]])

\* REVEAL ERASURES: `for i in start..end { if !received[i] { mul } }`
reveal_erasures(data, erasures, received, start, end) ==
  Table([p \in DOMAIN data |->
           IF p >= start /\ p < end /\ ~FixedBitSet_contains(received, p)
           THEN Engine_mul(tables.engine, data[p], GF_MODULUS - erasures[p])
           ELSE data[p]])

\* IFFT / FORMAL DERIVATIVE / FFT
decode_transform(data, work_count, truncated_size) ==
  LET d1 == Engine_ifft(tables.engine, data, 0, work_count, truncated_size, 0)
      d2 == formal_derivative(tables.engine, d1, work_count)
  IN Engine_fft(tables.engine, d2, 0, work_count, truncated_size, 0)

\* ======================================================================
\* rate/rate_high.rs - HighRateDecoder

HighRateDecoder_work_count(original_count, recovery_count) ==
  next_power_of_two(next_power_of_two(recovery_count) + original_count)

HighRateDecoder_reset_work(original_count, recovery_count, shard_bytes, work) ==
  LET valid == Rate_validate(HighRate_supports(original_count, recovery_count),
                             original_count, recovery_count, shard_bytes)
  IN IF valid # Ok
     THEN [work |-> work, ret |-> valid]
     ELSE [work |-> DecoderWork_reset(work, original_count, recovery_count, shard_bytes,
                      next_power_of_two(recovery_count), 0,
                      HighRateDecoder_work_count(original_count, recovery_count)),
           ret |-> Ok]

\* decode, ERASURE LOCATIONS and EVALUATE POLYNOMIAL
HighRateDecoder_erasures(work) ==
  LET chunk_size == next_power_of_two(work.recovery_count)
      original_end == chunk_size + work.original_count
  IN eval_poly(tables.engine,
               mark_erasures(
                 fill_erasures(
                   mark_erasures(Zeroes(GF_ORDER), work.received, 0, work.recovery_count),
                   work.recovery_count, chunk_size),
                 work.received, chunk_size, original_end),
               original_end)

\* decode, MULTIPLY SHARDS: the arena that decode hands to ifft
HighRateDecoder_multiply(work, erasures) ==
  LET chunk_size == next_power_of_two(work.recovery_count)
      original_end == chunk_size + work.original_count
  IN zero(multiply_shards(
            zero(multiply_shards(work.shards.data, erasures, work.received, 0, work.recovery_count),
                 work.recovery_count, chunk_size),
            erasures, work.received, chunk_size, original_end),
          original_end, work.shards.shard_count)

\* the arena after MULTIPLY SHARDS, with the erasure locator
HighRateDecoder_multiplied_with(work, erasures) ==
  [data |-> HighRateDecoder_multiply(work, erasures), erasures |-> erasures]

\* HighRateDecoder::decode up to MULTIPLY SHARDS: the arena that it hands to
\* ifft, and the erasure locator it has evaluated
HighRateDecoder_decode_multiplied(work) ==
  HighRateDecoder_multiplied_with(work, HighRateDecoder_erasures(work))

\* decode, IFFT / FORMAL DERIVATIVE / FFT and REVEAL ERASURES
HighRateDecoder_restore(work, multiplied) ==
  LET chunk_size == next_power_of_two(work.recovery_count)
      original_end == chunk_size + work.original_count
  IN reveal_erasures(decode_transform(multiplied.data, work.shards.shard_count, original_end),
                     multiplied.erasures, work.received, chunk_size, original_end)

HighRateDecoder_decode(work) ==
  LET begin == DecoderWork_decode_begin(work)
  IN IF begin.kind # "Ok"
     THEN [work |-> work, ret |-> begin]
     ELSE IF begin.stuff = "None"
     THEN [work |-> work, ret |-> Ok]
     ELSE [work |->
             [work EXCEPT !.shards.data =
                HighRateDecoder_restore(work, HighRateDecoder_decode_multiplied(work))],
           ret |-> Ok]

\* ======================================================================
\* rate/rate_low.rs - LowRateDecoder

LowRateDecoder_work_count(original_count, recovery_count) ==
  next_power_of_two(next_power_of_two(original_count) + recovery_count)

LowRateDecoder_reset_work(original_count, recovery_count, shard_bytes, work) ==
  LET valid == Rate_validate(LowRate_supports(original_count, recovery_count),
                             original_count, recovery_count, shard_bytes)
  IN IF valid # Ok
     THEN [work |-> work, ret |-> valid]
     ELSE [work |-> DecoderWork_reset(work, original_count, recovery_count, shard_bytes,
                      0, next_power_of_two(original_count),
                      LowRateDecoder_work_count(original_count, recovery_count)),
           ret |-> Ok]

\* decode, ERASURE LOCATIONS and EVALUATE POLYNOMIAL
LowRateDecoder_erasures(work) ==
  LET chunk_size == next_power_of_two(work.original_count)
      recovery_end == chunk_size + work.recovery_count
  IN eval_poly(tables.engine,
               fill_erasures(
                 mark_erasures(
                   mark_erasures(Zeroes(GF_ORDER), work.received, 0, work.original_count),
                   work.received, chunk_size, recovery_end),
                 recovery_end, GF_ORDER),
               GF_ORDER)

\* decode, MULTIPLY SHARDS: the arena that decode hands to ifft
LowRateDecoder_multiply(work, erasures) ==
  LET chunk_size == next_power_of_two(work.original_count)
      recovery_end == chunk_size + work.recovery_count
  IN zero(multiply_shards(
            zero(multiply_shards(work.shards.data, erasures, work.received, 0, work.original_count),
                 work.original_count, chunk_size),
            erasures, work.received, chunk_size, recovery_end),
          recovery_end, work.shards.shard_count)

\* the arena after MULTIPLY SHARDS, with the erasure locator
LowRateDecoder_multiplied_with(work, erasures) ==
  [data |-> LowRateDecoder_multiply(work, erasures), erasures |-> erasures]

\* LowRateDecoder::decode up to MULTIPLY SHARDS: the arena that it hands to
\* ifft, and the erasure locator it has evaluated
LowRateDecoder_decode_multiplied(work) ==
  LowRateDecoder_multiplied_with(work, LowRateDecoder_erasures(work))

\* decode, IFFT / FORMAL DERIVATIVE / FFT and REVEAL ERASURES
LowRateDecoder_restore(work, multiplied) ==
  LET chunk_size == next_power_of_two(work.original_count)
      recovery_end == chunk_size + work.recovery_count
  IN reveal_erasures(decode_transform(multiplied.data, work.shards.shard_count, recovery_end),
                     multiplied.erasures, work.received, 0, work.original_count)

LowRateDecoder_decode(work) ==
  LET begin == DecoderWork_decode_begin(work)
  IN IF begin.kind # "Ok"
     THEN [work |-> work, ret |-> begin]
     ELSE IF begin.stuff = "None"
     THEN [work |-> work, ret |-> Ok]
     ELSE [work |->
             [work EXCEPT !.shards.data =
                LowRateDecoder_restore(work, LowRateDecoder_decode_multiplied(work))],
           ret |-> Ok]

\* ======================================================================
\* rate/rate_default.rs

\* use_high_rate without its first check, `original_count > GF_ORDER ||
\* recovery_count > GF_ORDER`
use_high_rate_without_range_check(original_count, recovery_count, overflow_checks) ==
  LET original_pow2 == next_power_of_two(original_count)
      recovery_pow2 == next_power_of_two(recovery_count)
      original_count_pow2 == IF original_pow2 >= WordModulus THEN 0 ELSE original_pow2
      recovery_count_pow2 == IF recovery_pow2 >= WordModulus THEN 0 ELSE recovery_pow2
      smaller_pow2 == Min(original_count_pow2, recovery_count_pow2)
      larger == Max(original_count, recovery_count)
  IN IF overflow_checks /\ (original_pow2 >= WordModulus \/ recovery_pow2 >= WordModulus)
     THEN Panic("attempt to add with overflow")
     ELSE IF original_count = 0 \/ recovery_count = 0
     THEN UnsupportedShardCount(original_count, recovery_count)
     ELSE IF overflow_checks /\ smaller_pow2 + larger >= WordModulus
     THEN Panic("attempt to add with overflow")
     ELSE IF (smaller_pow2 + larger) % WordModulus > GF_ORDER
     THEN UnsupportedShardCount(original_count, recovery_count)
     ELSE IF original_count_pow2 < recovery_count_pow2
     THEN [kind |-> "Ok", high |-> FALSE]
     ELSE IF original_count_pow2 > recovery_count_pow2
     THEN [kind |-> "Ok", high |-> TRUE]
     ELSE [kind |-> "Ok", high |-> original_count <= recovery_count]

\* use_high_rate: Ok(true), Ok(false) or Err(UnsupportedShardCount).
\* The arithmetic is that of usize: next_power_of_two and `+` panic on
\* overflow in a build with overflow checks and wrap (next_power_of_two to
\* 0) in a build without.
use_high_rate(original_count, recovery_count, overflow_checks) ==
  LET original_pow2 == next_power_of_two(original_count)
      recovery_pow2 == next_power_of_two(recovery_count)
      original_count_pow2 == IF original_pow2 >= WordModulus THEN 0 ELSE original_pow2
      recovery_count_pow2 == IF recovery_pow2 >= WordModulus THEN 0 ELSE recovery_pow2
      smaller_pow2 == Min(original_count_pow2, recovery_count_pow2)
      larger == Max(original_count, recovery_count)
  IN IF original_count > GF_ORDER \/ recovery_count > GF_ORDER
     THEN UnsupportedShardCount(original_count, recovery_count)
     ELSE IF overflow_checks /\ (original_pow2 >= WordModulus \/ recovery_pow2 >= WordModulus)
     THEN Panic("attempt to add with overflow")
     ELSE IF original_count = 0 \/ recovery_count = 0
     THEN UnsupportedShardCount(original_count, recovery_count)
     ELSE IF overflow_checks /\ smaller_pow2 + larger >= WordModulus
     THEN Panic("attempt to add with overflow")
     ELSE IF (smaller_pow2 + larger) % WordModulus > GF_ORDER
     THEN UnsupportedShardCount(original_count, recovery_count)
     ELSE IF original_count_pow2 < recovery_count_pow2
     THEN [kind |-> "Ok", high |-> FALSE]
     ELSE IF original_count_pow2 > recovery_count_pow2
     THEN [kind |-> "Ok", high |-> TRUE]
     ELSE [kind |-> "Ok", high |-> original_count <= recovery_count]

\* The sessions of this model have shard counts far below the word size,
\* where the two build profiles compute the same
DefaultRate_supports(original_count, recovery_count) ==
  use_high_rate(original_count, recovery_count, FALSE).kind = "Ok"

\* A session is a record [inner, work]: the pipeline in use ("High", "Low",
\* or for DefaultRate the empty InnerEncoder::None / InnerDecoder::None) and
\* the work object it owns.  A session whose inner state is None owns no
\* work; its work field then holds a new, empty work object.

Unreachable == Panic("internal error: entered unreachable code")

\* HighRateEncoder::new / LowRateEncoder::new over `work.unwrap_or_default()`
HighRateEncoder_new(original_count, recovery_count, shard_bytes, work) ==
  LET r == HighRateEncoder_reset_work(original_count, recovery_count, shard_bytes, work)
  IN [inner |-> IF r.ret = Ok THEN "High" ELSE "None", work |-> r.work, ret |-> r.ret]

LowRateEncoder_new(original_count, recovery_count, shard_bytes, work) ==
  LET r == LowRateEncoder_reset_work(original_count, recovery_count, shard_bytes, work)
  IN [inner |-> IF r.ret = Ok THEN "Low" ELSE "None", work |-> r.work, ret |-> r.ret]

DefaultRateEncoder_new(original_count, recovery_count, shard_bytes, work) ==
  LET use_high == use_high_rate(original_count, recovery_count, FALSE)
  IN IF use_high.kind # "Ok"
     THEN [inner |-> "None", work |-> work, ret |-> use_high]
     ELSE IF use_high.high
     THEN HighRateEncoder_new(original_count, recovery_count, shard_bytes, work)
     ELSE LowRateEncoder_new(original_count, recovery_count, shard_bytes, work)

\* DefaultRateEncoder::reset.  std::mem::take leaves InnerEncoder::None in
\* self.0; a `?` inside the match returns before self.0 is assigned again
\* and drops the encoder that was taken out, together with its work.
DefaultRateEncoder_reset(self, original_count, recovery_count, shard_bytes) ==
  LET new_rate_is_high == use_high_rate(original_count, recovery_count, FALSE)
      taken == self.inner
      high_reset == HighRateEncoder_reset_work(original_count, recovery_count,
                                               shard_bytes, self.work)
      low_reset == LowRateEncoder_reset_work(original_count, recovery_count,
                                             shard_bytes, self.work)
      high_new == HighRateEncoder_new(original_count, recovery_count, shard_bytes, self.work)
      low_new == LowRateEncoder_new(original_count, recovery_count, shard_bytes, self.work)
      left_empty(err) == [inner |-> "None", work |-> EncoderWork_new, ret |-> err]
  IN IF new_rate_is_high.kind # "Ok"
     THEN [inner |-> self.inner, work |-> self.work, ret |-> new_rate_is_high]
     ELSE CASE taken = "High" ->
                 IF new_rate_is_high.high
                 THEN IF high_reset.ret # Ok THEN left_empty(high_reset.ret)
                      ELSE [inner |-> "High", work |-> high_reset.work, ret |-> Ok]
                 ELSE IF low_new.ret # Ok THEN left_empty(low_new.ret)
                      ELSE [inner |-> "Low", work |-> low_new.work, ret |-> Ok]
            [] taken = "Low" ->
                 IF new_rate_is_high.high
                 THEN IF high_new.ret # Ok THEN left_empty(high_new.ret)
                      ELSE [inner |-> "High", work |-> high_new.work, ret |-> Ok]
                 ELSE IF low_reset.ret # Ok THEN left_empty(low_reset.ret)
                      ELSE [inner |-> "Low", work |-> low_reset.work, ret |-> Ok]
            [] taken = "None" ->
                 [inner |-> "None", work |-> self.work, ret |-> Unreachable]

\* HighRateDecoder::new / LowRateDecoder::new over `work.unwrap_or_default()`
HighRateDecoder_new(original_count, recovery_count, shard_bytes, work) ==
  LET r == HighRateDecoder_reset_work(original_count, recovery_count, shard_bytes, work)
  IN [inner |-> IF r.ret = Ok THEN "High" ELSE "None", work |-> r.work, ret |-> r.ret]

LowRateDecoder_new(original_count, recovery_count, shard_bytes, work) ==
  LET r == LowRateDecoder_reset_work(original_count, recovery_count, shard_bytes, work)
  IN [inner |-> IF r.ret = Ok THEN "Low" ELSE "None", work |-> r.work, ret |-> r.ret]

DefaultRateDecoder_new(original_count, recovery_count, shard_bytes, work) ==
  LET use_high == use_high_rate(original_count, recovery_count, FALSE)
  IN IF use_high.kind # "Ok"
     THEN [inner |-> "None", work |-> work, ret |-> use_high]
     ELSE IF use_high.high
     THEN HighRateDecoder_new(original_count, recovery_count, shard_bytes, work)
     ELSE LowRateDecoder_new(original_count, recovery_count, shard_bytes, work)

\* DefaultRateDecoder::reset, as DefaultRateEncoder::reset
DefaultRateDecoder_reset(self, original_count, recovery_count, shard_bytes) ==
  LET new_rate_is_high == use_high_rate(original_count, recovery_count, FALSE)
      taken == self.inner
      high_reset == HighRateDecoder_reset_work(original_count, recovery_count,
                                               shard_bytes, self.work)
      low_reset == LowRateDecoder_reset_work(original_count, recovery_count,
                                             shard_bytes, self.work)
      high_new == HighRateDecoder_new(original_count, recovery_count, shard_bytes, self.work)
      low_new == LowRateDecoder_new(original_count, recovery_count, shard_bytes, self.work)
      left_empty(err) == [inner |-> "None", work |-> DecoderWork_new, ret |-> err]
  IN IF new_rate_is_high.kind # "Ok"
     THEN [inner |-> self.inner, work |-> self.work, ret |-> new_rate_is_high]
     ELSE CASE taken = "High" ->
                 IF new_rate_is_high.high
                 THEN IF high_reset.ret # Ok THEN left_empty(high_reset.ret)
                      ELSE [inner |-> "High", work |-> high_reset.work, ret |-> Ok]
                 ELSE IF low_new.ret # Ok THEN left_empty(low_new.ret)
                      ELSE [inner |-> "Low", work |-> low_new.work, ret |-> Ok]
            [] taken = "Low" ->
                 IF new_rate_is_high.high
                 THEN IF high_new.ret # Ok THEN left_empty(high_new.ret)
                      ELSE [inner |-> "High", work |-> high_new.work, ret |-> Ok]
                 ELSE IF low_reset.ret # Ok THEN left_empty(low_reset.ret)
                      ELSE [inner |-> "Low", work |-> low_reset.work, ret |-> Ok]
            [] taken = "None" ->
                 [inner |-> "None", work |-> self.work, ret |-> Unreachable]

\* ======================================================================
\* rate.rs - traits RateEncoder / RateDecoder, dispatched on the rate
\* ("HighRate", "LowRate", "DefaultRate") of the session

RateEncoder_new(rate, original_count, recovery_count, shard_bytes, work) ==
  CASE rate = "HighRate" -> HighRateEncoder_new(original_count, recovery_count, shard_bytes, work)
    [] rate = "LowRate" -> LowRateEncoder_new(original_count, recovery_count, shard_bytes, work)
    [] rate = "DefaultRate" ->
         DefaultRateEncoder_new(original_count, recovery_count, shard_bytes, work)

RateEncoder_reset(rate, self, original_count, recovery_count, shard_bytes) ==
  CASE rate = "HighRate" ->
         LET r == HighRateEncoder_reset_work(original_count, recovery_count,
                                             shard_bytes, self.work)
         IN [inner |-> self.inner, work |-> r.work, ret |-> r.ret]
    [] rate = "LowRate" ->
         LET r == LowRateEncoder_reset_work(original_count, recovery_count,
                                            shard_bytes, self.work)
         IN [inner |-> self.inner, work |-> r.work, ret |-> r.ret]
    [] rate = "DefaultRate" ->
         DefaultRateEncoder_reset(self, original_count, recovery_count, shard_bytes)

\* add_original_shard: every rate forwards to the work of its inner encoder
RateEncoder_add_original_shard(self, shard) ==
  IF self.inner = "None"
  THEN [work |-> self.work, ret |-> Unreachable]
  ELSE EncoderWork_add_original_shard(self.work, shard)

RateEncoder_encode(self) ==
  CASE self.inner = "High" -> HighRateEncoder_encode(self.work)
    [] self.inner = "Low" -> LowRateEncoder_encode(self.work)
    [] self.inner = "None" -> [work |-> self.work, ret |-> Unreachable]

RateDecoder_new(rate, original_count, recovery_count, shard_bytes, work) ==
  CASE rate = "HighRate" -> HighRateDecoder_new(original_count, recovery_count, shard_bytes, work)
    [] rate = "LowRate" -> LowRateDecoder_new(original_count, recovery_count, shard_bytes, work)
    [] rate = "DefaultRate" ->
         DefaultRateDecoder_new(original_count, recovery_count, shard_bytes, work)

RateDecoder_reset(rate, self, original_count, recovery_count, shard_bytes) ==
  CASE rate = "HighRate" ->
         LET r == HighRateDecoder_reset_work(original_count, recovery_count,
                                             shard_bytes, self.work)
         IN [inner |-> self.inner, work |-> r.work, ret |-> r.ret]
    [] rate = "LowRate" ->
         LET r == LowRateDecoder_reset_work(original_count, recovery_count,
                                            shard_bytes, self.work)
         IN [inner |-> self.inner, work |-> r.work, ret |-> r.ret]
    [] rate = "DefaultRate" ->
         DefaultRateDecoder_reset(self, original_count, recovery_count, shard_bytes)

RateDecoder_add_original_shard(self, index, shard, overflow_checks) ==
  IF self.inner = "None"
  THEN [work |-> self.work, ret |-> Unreachable]
  ELSE DecoderWork_add_original_shard(self.work, index, shard, overflow_checks)

RateDecoder_add_recovery_shard(self, index, shard, overflow_checks) ==
  IF self.inner = "None"
  THEN [work |-> self.work, ret |-> Unreachable]
  ELSE DecoderWork_add_recovery_shard(self.work, index, shard, overflow_checks)

RateDecoder_decode(self) ==
  CASE self.inner = "High" -> HighRateDecoder_decode(self.work)
    [] self.inner = "Low" -> LowRateDecoder_decode(self.work)
    [] self.inner = "None" -> [work |-> self.work, ret |-> Unreachable]

\* ======================================================================
\* Inputs of the callers

\* The bytes of original shard `index` of data set d, `len` bytes long
Payload(d, index, len) ==
  Table([b \in 0..(len - 1) |->
           (((d + 1) * (b + 2)) + ((index + 1) * ((b * b) + 1)) + (index * d) + (b \div 3))
             % BYTE_RANGE])

\* RateEncoder::new(original_count, recovery_count, shard_bytes, None)
NewEncoder(rate, original_count, recovery_count, shard_bytes) ==
  LET new == RateEncoder_new(rate, original_count, recovery_count, shard_bytes,
                             EncoderWork_new)
  IN [inner |-> new.inner, work |-> new.work]

\* rate.rs, RateEncoder: a new encoder is given the originals of data set d
\* in index order
RECURSIVE AddOriginals(_, _, _, _)
AddOriginals(self, d, index, original_count) ==
  IF index < original_count
  THEN LET r == RateEncoder_add_original_shard(self, Payload(d, index, self.work.shard_bytes))
       IN AddOriginals([self EXCEPT !.work = r.work], d, index + 1, original_count)
  ELSE self

\* The recovery shards a newly constructed encoder returns for data set d:
\* new, add_original_shard k times, encode, EncoderResult::recovery(0..m)
EncodedRecovery(rate, original_count, recovery_count, shard_bytes, d) ==
  LET done == RateEncoder_encode(
                AddOriginals(NewEncoder(rate, original_count, recovery_count, shard_bytes),
                             d, 0, original_count))
  IN Table([index \in 0..(recovery_count - 1) |->
              EncoderWork_recovery(done.work, index).shard])

\* ======================================================================
\* Bounds of the exploration

\* shard counts go up to MaxCount, shard indexes one further
MaxCount == 2
\* rounds of one session: the first one and those begun by a result drop,
\* a reset or a construction over the work taken with into_parts
MaxRounds == 2
\* calls of Iterator::next observed after the iterator has ended
MaxEndedCalls == 2

USIZE_MAX == WordModulus - 1

Rates == {"HighRate", "LowRate", "DefaultRate"}
Roles == {"Encoder", "Decoder"}

Config(original_count, recovery_count, shard_bytes) ==
  [original_count |-> original_count, recovery_count |-> recovery_count,
   shard_bytes |-> shard_bytes]

\* (original_count, recovery_count, shard_bytes) of new and reset: fewer,
\* more and as many originals as recoveries, in two shard sizes; a count
\* of zero, which no rate supports; a size that is no multiple of the block
ConfigArgs ==
  {Config(1, MaxCount, BLOCK_BYTES), Config(MaxCount, 1, 2 * BLOCK_BYTES),
   Config(MaxCount, MaxCount, BLOCK_BYTES),
   Config(0, 1, BLOCK_BYTES), Config(1, 1, BLOCK_BYTES - 1)}
\* lengths of the shards passed to add_*_shard
LenArgs == {BLOCK_BYTES, 2 * BLOCK_BYTES}
\* shard indexes: the valid ones, the first invalid ones, the largest usize
IndexArgs == (0..MaxCount) \cup {USIZE_MAX}
\* build profiles (overflow checks on or off) that matter for a call with
\* this index: the two differ only when base_pos + index can overflow
Profiles(index) == IF index + GF_ORDER >= WordModulus THEN BOOLEAN ELSE {FALSE}
\* the data sets the caller's shards come from are numbered 0..MaxData
MaxData == 1
DataSets == 0..MaxData

\* ======================================================================
\* State

VARIABLES
  role,      \* "Encoder" or "Decoder": the kind of session under way
  rate,      \* "HighRate", "LowRate" or "DefaultRate"
  self,      \* the session: [inner, work]
  phase,     \* "Ready"; "Result" while an EncoderResult / DecoderResult
             \* borrows the session; "Panicked" after a call panicked;
             \* "Gone" after into_parts when the following new failed
  iter,      \* the RestoredOriginal iterator of the DecoderResult:
             \* [active, ended, next_index] and the items it has returned
  last,      \* the last call: [op, ret, ...] with its arguments
  given,     \* what the caller has had accepted in this round
  config,    \* the (k, m, shard_bytes) of the last successful new / reset
  boundary,  \* how this round began: "new", "reset", "into_parts", "drop"
  rounds,    \* number of rounds begun
  previous,  \* after a result drop: the inputs and outputs of the round
             \* that the drop ended
  fresh      \* a session newly constructed with `config` when this round
             \* began and given the same calls since

vars ==
  <<tables, role, rate, self, phase, iter, last, given, config, boundary, rounds,
    previous, fresh>>

NoIter == [active |-> FALSE, ended |-> FALSE, next_index |-> 0, items |-> <<>>]
\* Nothing accepted yet of data set d: the indexes of the originals and
\* recoveries a decoder has accepted, the shards an encoder has accepted
NewGiven(d) ==
  [d |-> d, originals |-> {}, recoveries |-> {}, shards |-> <<>>]
NoPrevious == [dropped |-> FALSE]
Session(r) == [inner |-> r.inner, work |-> r.work]

Work_new(ro) == IF ro = "Encoder" THEN EncoderWork_new ELSE DecoderWork_new

Rate_new(ro, ra, original_count, recovery_count, shard_bytes, work) ==
  IF ro = "Encoder"
  THEN RateEncoder_new(ra, original_count, recovery_count, shard_bytes, work)
  ELSE RateDecoder_new(ra, original_count, recovery_count, shard_bytes, work)

\* A newly constructed session of the given configuration
Fresh(ro, ra, cfg) ==
  Session(Rate_new(ro, ra, cfg.original_count, cfg.recovery_count, cfg.shard_bytes,
                   Work_new(ro)))

\* The state after RateEncoder::new / RateDecoder::new returned Ok
Init ==
  \E ro \in Roles, ra \in Rates, cfg \in ConfigArgs, d \in DataSets :
    \E new \in {Rate_new(ro, ra, cfg.original_count, cfg.recovery_count,
                         cfg.shard_bytes, Work_new(ro))} :
       /\ new.ret = Ok
       /\ tables = Engine_new("Naive")
       /\ role = ro
       /\ rate = ra
       /\ self = Session(new)
       /\ phase = "Ready"
       /\ iter = NoIter
       /\ last = [op |-> "new", ret |-> Ok, fresh_ret |-> Ok]
       /\ given = NewGiven(d)
       /\ config = cfg
       /\ boundary = "new"
       /\ rounds = 1
       /\ previous = NoPrevious
       /\ fresh = Session(new)

\* phase after a call that returned ret
AfterCall(ret, ok_phase) ==
  IF ret.kind = "Panic" THEN "Panicked" ELSE ok_phase

\* ======================================================================
\* Encoder sessions: RateEncoder and EncoderResult (rate.rs, encoder_result.rs)

\* add_original_shard with len bytes of the next original of data set d
EncoderAddOriginalShard(len) ==
  /\ role = "Encoder"
  /\ phase = "Ready"
  /\ \E shard \in {Payload(given.d, Len(given.shards), len)} :
     \E r \in {RateEncoder_add_original_shard(self, shard)},
        f \in {RateEncoder_add_original_shard(fresh, shard)} :
        /\ self' = [self EXCEPT !.work = r.work]
        /\ fresh' = [fresh EXCEPT !.work = f.work]
        /\ phase' = AfterCall(r.ret, "Ready")
        /\ given' = IF r.ret = Ok THEN [given EXCEPT !.shards = Append(@, shard)] ELSE given
        /\ last' = [op |-> "add_original_shard", shard |-> shard, pre |-> given,
                    ret |-> r.ret, fresh_ret |-> f.ret]
  /\ UNCHANGED <<tables, role, rate, iter, config, boundary, rounds, previous>>

\* encode; on Ok the EncoderResult borrows the session
EncoderEncode ==
  /\ role = "Encoder"
  /\ phase = "Ready"
  /\ \E r \in {RateEncoder_encode(self)}, f \in {RateEncoder_encode(fresh)} :
        /\ self' = [self EXCEPT !.work = r.work]
        /\ fresh' = [fresh EXCEPT !.work = f.work]
        /\ phase' = AfterCall(r.ret, IF r.ret = Ok THEN "Result" ELSE "Ready")
        /\ last' = [op |-> "encode", pre |-> given, ret |-> r.ret, fresh_ret |-> f.ret]
  /\ UNCHANGED <<tables, role, rate, iter, given, config, boundary, rounds, previous>>

\* EncoderResult::recovery_iter collected: recovery shard index |-> bytes
RecoveryOutputs(work) ==
  [index \in 0..(work.recovery_count - 1) |-> EncoderWork_recovery(work, index).shard]

\* impl Drop for EncoderResult; the caller's next round feeds data set d
EncoderResultDrop(d) ==
  /\ role = "Encoder"
  /\ phase = "Result"
  /\ rounds < MaxRounds
  /\ self' = [self EXCEPT !.work = EncoderWork_reset_received(@)]
  /\ fresh' = Fresh(role, rate, config)
  /\ phase' = "Ready"
  /\ given' = NewGiven(d)
  /\ boundary' = "drop"
  /\ rounds' = rounds + 1
  /\ previous' = [dropped |-> TRUE, given |-> given, outputs |-> RecoveryOutputs(self.work)]
  /\ last' = [op |-> "drop", pre |-> given, pre_work |-> self.work,
              ret |-> Ok, fresh_ret |-> Ok]
  /\ UNCHANGED <<tables, role, rate, iter, config>>

\* reset(original_count, recovery_count, shard_bytes)
EncoderReset(original_count, recovery_count, shard_bytes, d) ==
  /\ role = "Encoder"
  /\ phase = "Ready"
  /\ rounds < MaxRounds
  /\ \E r \in {RateEncoder_reset(rate, self, original_count, recovery_count, shard_bytes)},
        f \in {RateEncoder_reset(rate, fresh, original_count, recovery_count, shard_bytes)},
        cfg \in {Config(original_count, recovery_count, shard_bytes)} :
        /\ self' = Session(r)
        /\ phase' = AfterCall(r.ret, "Ready")
        /\ last' = [op |-> "reset", rate |-> rate, args |-> cfg, pre |-> given,
                    ret |-> r.ret, fresh_ret |-> f.ret]
        /\ IF r.ret = Ok
           THEN /\ fresh' = Fresh(role, rate, cfg)
                /\ given' = NewGiven(d)
                /\ config' = cfg
                /\ boundary' = "reset"
                /\ rounds' = rounds + 1
                /\ previous' = NoPrevious
           ELSE /\ fresh' = Session(f)
                /\ UNCHANGED <<given, config, boundary, rounds, previous>>
  /\ UNCHANGED <<tables, role, rate, iter>>

\* into_parts, then RateEncoder::new of rate ra over the work taken out
EncoderIntoPartsNew(ra, original_count, recovery_count, shard_bytes, d) ==
  /\ role = "Encoder"
  /\ phase = "Ready"
  /\ rounds < MaxRounds
  /\ \E new \in {RateEncoder_new(ra, original_count, recovery_count, shard_bytes, self.work)},
        cfg \in {Config(original_count, recovery_count, shard_bytes)} :
        IF self.inner = "None"
        THEN /\ phase' = "Panicked"
             /\ last' = [op |-> "into_parts", pre |-> given,
                         ret |-> Unreachable, fresh_ret |-> Unreachable]
             /\ UNCHANGED <<rate, self, fresh, given, config, boundary, rounds, previous>>
        ELSE /\ last' = [op |-> "into_parts_new", rate |-> ra, args |-> cfg, pre |-> given,
                         ret |-> new.ret, fresh_ret |-> new.ret]
             /\ self' = Session(new)
             /\ IF new.ret = Ok
                THEN /\ rate' = ra
                     /\ phase' = "Ready"
                     /\ fresh' = Fresh(role, ra, cfg)
                     /\ given' = NewGiven(d)
                     /\ config' = cfg
                     /\ boundary' = "into_parts"
                     /\ rounds' = rounds + 1
                     /\ previous' = NoPrevious
                ELSE /\ phase' = "Gone"
                     /\ UNCHANGED <<rate, fresh, given, config, boundary, rounds, previous>>
  /\ UNCHANGED <<tables, role, iter>>

\* ======================================================================
\* Decoder sessions: RateDecoder, DecoderResult and RestoredOriginal
\* (rate.rs, decoder_result.rs)

\* What the caller passes as original shard `index`: len bytes of data set d
OriginalShard(d, index, len) == Payload(d, index, len)

\* What the caller passes as recovery shard `index`: the shard an encoder
\* of the same rate produced for data set d, or len other bytes when there
\* is no such shard
RecoveryShard(ra, cfg, d, index, len) ==
  IF /\ index < cfg.recovery_count
     /\ len = cfg.shard_bytes
     /\ RateEncoder_new(ra, cfg.original_count, cfg.recovery_count, cfg.shard_bytes,
                        EncoderWork_new).ret = Ok
  THEN EncodedRecovery(ra, cfg.original_count, cfg.recovery_count, cfg.shard_bytes, d)[index]
  ELSE Payload(d, 0, len)

DecoderAddOriginalShard(index, len, overflow_checks) ==
  /\ role = "Decoder"
  /\ phase = "Ready"
  /\ \E shard \in {OriginalShard(given.d, index, len)} :
     \E r \in {RateDecoder_add_original_shard(self, index, shard, overflow_checks)},
        f \in {RateDecoder_add_original_shard(fresh, index, shard, overflow_checks)} :
        /\ self' = [self EXCEPT !.work = r.work]
        /\ fresh' = [fresh EXCEPT !.work = f.work]
        /\ phase' = AfterCall(r.ret, "Ready")
        /\ given' = IF r.ret = Ok THEN [given EXCEPT !.originals = @ \cup {index}] ELSE given
        /\ last' = [op |-> "add_original_shard", index |-> index, shard |-> shard,
                    pre |-> given, ret |-> r.ret, fresh_ret |-> f.ret]
  /\ UNCHANGED <<tables, role, rate, iter, config, boundary, rounds, previous>>

DecoderAddRecoveryShard(index, len, overflow_checks) ==
  /\ role = "Decoder"
  /\ phase = "Ready"
  /\ \E shard \in {RecoveryShard(rate, config, given.d, index, len)} :
     \E r \in {RateDecoder_add_recovery_shard(self, index, shard, overflow_checks)},
        f \in {RateDecoder_add_recovery_shard(fresh, index, shard, overflow_checks)} :
        /\ self' = [self EXCEPT !.work = r.work]
        /\ fresh' = [fresh EXCEPT !.work = f.work]
        /\ phase' = AfterCall(r.ret, "Ready")
        /\ given' = IF r.ret = Ok THEN [given EXCEPT !.recoveries = @ \cup {index}] ELSE given
        /\ last' = [op |-> "add_recovery_shard", index |-> index, shard |-> shard,
                    pre |-> given, ret |-> r.ret, fresh_ret |-> f.ret]
  /\ UNCHANGED <<tables, role, rate, iter, config, boundary, rounds, previous>>

\* decode; on Ok the DecoderResult borrows the session
DecoderDecode ==
  /\ role = "Decoder"
  /\ phase = "Ready"
  /\ \E r \in {RateDecoder_decode(self)}, f \in {RateDecoder_decode(fresh)} :
        /\ self' = [self EXCEPT !.work = r.work]
        /\ fresh' = [fresh EXCEPT !.work = f.work]
        /\ phase' = AfterCall(r.ret, IF r.ret = Ok THEN "Result" ELSE "Ready")
        /\ last' = [op |-> "decode", pre |-> given, ret |-> r.ret, fresh_ret |-> f.ret]
  /\ iter' = NoIter
  /\ UNCHANGED <<tables, role, rate, given, config, boundary, rounds, previous>>

\* DecoderResult::restored_original(index)
RestoredOriginalCall(index, overflow_checks) ==
  /\ role = "Decoder"
  /\ phase = "Result"
  /\ \E r \in {DecoderWork_restored_original(self.work, index, overflow_checks)},
        f \in {DecoderWork_restored_original(fresh.work, index, overflow_checks)} :
        /\ phase' = AfterCall(r, "Result")
        /\ last' = [op |-> "restored_original", index |-> index, pre |-> given,
                    ret |-> r, fresh_ret |-> f]
  /\ UNCHANGED <<tables, role, rate, self, fresh, iter, given, config, boundary, rounds,
               previous>>

\* DecoderResult::restored_original_iter
RestoredOriginalIter ==
  /\ role = "Decoder"
  /\ phase = "Result"
  /\ ~iter.active
  /\ iter' = [active |-> TRUE, ended |-> FALSE, next_index |-> 0, items |-> <<>>]
  /\ last' = [op |-> "restored_original_iter", pre |-> given, ret |-> Ok, fresh_ret |-> Ok]
  /\ UNCHANGED <<tables, role, rate, self, fresh, phase, given, config, boundary, rounds,
               previous>>

\* impl Iterator for RestoredOriginal, next: `while index < original_count`
RECURSIVE RestoredOriginal_scan(_, _)
RestoredOriginal_scan(work, index) ==
  IF index < work.original_count
  THEN LET original == DecoderWork_restored_original(work, index, FALSE)
       IN IF original.kind = "Some"
          THEN [next_index |-> index + 1, ended |-> FALSE,
                ret |-> [kind |-> "Some", index |-> index, shard |-> original.shard]]
          ELSE RestoredOriginal_scan(work, index + 1)
  ELSE [next_index |-> index, ended |-> TRUE, ret |-> [kind |-> "None"]]

\* impl Iterator for RestoredOriginal, next
RestoredOriginal_next(it, work) ==
  IF it.ended
  THEN [next_index |-> it.next_index, ended |-> TRUE, ret |-> [kind |-> "None"]]
  ELSE LET found == RestoredOriginal_scan(work, it.next_index)
       IN [next_index |-> IF found.ended THEN it.next_index ELSE found.next_index,
           ended |-> found.ended, ret |-> found.ret]

\* the index an item carries, -1 for None
ItemIndex(ret) == IF ret.kind = "Some" THEN ret.index ELSE -1

EndedCalls(items) == Cardinality({p \in DOMAIN items : items[p] = -1})

RestoredOriginalNext ==
  /\ role = "Decoder"
  /\ phase = "Result"
  /\ iter.active
  /\ EndedCalls(iter.items) < MaxEndedCalls
  /\ \E r \in {RestoredOriginal_next(iter, self.work)},
        f \in {RestoredOriginal_next(iter, fresh.work)} :
        /\ iter' = [active |-> TRUE, ended |-> r.ended, next_index |-> r.next_index,
                    items |-> Append(iter.items, ItemIndex(r.ret))]
        /\ last' = [op |-> "next", pre |-> given, ret |-> r.ret, fresh_ret |-> f.ret]
  /\ UNCHANGED <<tables, role, rate, self, fresh, phase, given, config, boundary, rounds,
               previous>>

\* DecoderResult::restored_original_iter collected: index |-> bytes
RestoredOutputs(work) ==
  [index \in {i \in 0..(work.original_count - 1) :
                DecoderWork_restored_original(work, i, FALSE).kind = "Some"} |->
     DecoderWork_restored_original(work, index, FALSE).shard]

\* impl Drop for DecoderResult; the caller's next round feeds data set d
DecoderResultDrop(d) ==
  /\ role = "Decoder"
  /\ phase = "Result"
  /\ rounds < MaxRounds
  /\ self' = [self EXCEPT !.work = DecoderWork_reset_received(@)]
  /\ fresh' = Fresh(role, rate, config)
  /\ phase' = "Ready"
  /\ iter' = NoIter
  /\ given' = NewGiven(d)
  /\ boundary' = "drop"
  /\ rounds' = rounds + 1
  /\ previous' = [dropped |-> TRUE, given |-> given, outputs |-> RestoredOutputs(self.work)]
  /\ last' = [op |-> "drop", pre |-> given, pre_work |-> self.work,
              ret |-> Ok, fresh_ret |-> Ok]
  /\ UNCHANGED <<tables, role, rate, config>>

DecoderReset(original_count, recovery_count, shard_bytes, d) ==
  /\ role = "Decoder"
  /\ phase = "Ready"
  /\ rounds < MaxRounds
  /\ \E r \in {RateDecoder_reset(rate, self, original_count, recovery_count, shard_bytes)},
        f \in {RateDecoder_reset(rate, fresh, original_count, recovery_count, shard_bytes)},
        cfg \in {Config(original_count, recovery_count, shard_bytes)} :
        /\ self' = Session(r)
        /\ phase' = AfterCall(r.ret, "Ready")
        /\ last' = [op |-> "reset", rate |-> rate, args |-> cfg, pre |-> given,
                    ret |-> r.ret, fresh_ret |-> f.ret]
        /\ IF r.ret = Ok
           THEN /\ fresh' = Fresh(role, rate, cfg)
                /\ given' = NewGiven(d)
                /\ config' = cfg
                /\ boundary' = "reset"
                /\ rounds' = rounds + 1
                /\ previous' = NoPrevious
           ELSE /\ fresh' = Session(f)
                /\ UNCHANGED <<given, config, boundary, rounds, previous>>
  /\ UNCHANGED <<tables, role, rate, iter>>

DecoderIntoPartsNew(ra, original_count, recovery_count, shard_bytes, d) ==
  /\ role = "Decoder"
  /\ phase = "Ready"
  /\ rounds < MaxRounds
  /\ \E new \in {RateDecoder_new(ra, original_count, recovery_count, shard_bytes, self.work)},
        cfg \in {Config(original_count, recovery_count, shard_bytes)} :
        IF self.inner = "None"
        THEN /\ phase' = "Panicked"
             /\ last' = [op |-> "into_parts", pre |-> given,
                         ret |-> Unreachable, fresh_ret |-> Unreachable]
             /\ UNCHANGED <<rate, self, fresh, given, config, boundary, rounds, previous>>
        ELSE /\ last' = [op |-> "into_parts_new", rate |-> ra, args |-> cfg, pre |-> given,
                         ret |-> new.ret, fresh_ret |-> new.ret]
             /\ self' = Session(new)
             /\ IF new.ret = Ok
                THEN /\ rate' = ra
                     /\ phase' = "Ready"
                     /\ fresh' = Fresh(role, ra, cfg)
                     /\ given' = NewGiven(d)
                     /\ config' = cfg
                     /\ boundary' = "into_parts"
                     /\ rounds' = rounds + 1
                     /\ previous' = NoPrevious
                ELSE /\ phase' = "Gone"
                     /\ UNCHANGED <<rate, fresh, given, config, boundary, rounds, previous>>
  /\ UNCHANGED <<tables, role, iter>>

\* ======================================================================
\* lib.rs - decode, over ReedSolomonDecoder (reed_solomon.rs), which wraps a
\* DefaultRateDecoder.  `original` and `recovery` are the two iterables:
\* sequences of [index, shard].  A step that has failed is [decoder, ret]
\* with the error the `?` returns.

ReedSolomonDecoder_supports(original_count, recovery_count) ==
  DefaultRate_supports(original_count, recovery_count)

ReedSolomonDecoder_new(original_count, recovery_count, shard_bytes) ==
  LET new == DefaultRateDecoder_new(original_count, recovery_count, shard_bytes,
                                    DecoderWork_new)
  IN [decoder |-> Session(new), ret |-> new.ret]

\* `for (index, original) in original { decoder.add_original_shard(index, original)?; }`
RECURSIVE decode_add_original(_, _, _, _)
decode_add_original(step, original, i, overflow_checks) ==
  IF step.ret = Ok /\ i <= Len(original)
  THEN LET r == RateDecoder_add_original_shard(step.decoder, original[i].index,
                                               original[i].shard, overflow_checks)
       IN decode_add_original([decoder |-> [step.decoder EXCEPT !.work = r.work],
                               ret |-> r.ret],
                              original, i + 1, overflow_checks)
  ELSE step

\* the first recovery shard, then `for (index, recovery) in recovery { .. ?; }`
RECURSIVE decode_add_recovery(_, _, _, _)
decode_add_recovery(step, recovery, i, overflow_checks) ==
  IF step.ret = Ok /\ i <= Len(recovery)
  THEN LET r == RateDecoder_add_recovery_shard(step.decoder, recovery[i].index,
                                               recovery[i].shard, overflow_checks)
       IN decode_add_recovery([decoder |-> [step.decoder EXCEPT !.work = r.work],
                               ret |-> r.ret],
                              recovery, i + 1, overflow_checks)
  ELSE step

\* `decoder.decode()?.restored_original_iter()` collected into the HashMap
decode_collect(step) ==
  IF step.ret # Ok
  THEN step.ret
  ELSE LET r == RateDecoder_decode(step.decoder)
       IN IF r.ret # Ok THEN r.ret ELSE [kind |-> "Ok", map |-> RestoredOutputs(r.work)]

decode(original_count, recovery_count, original, recovery, overflow_checks) ==
  IF ~ReedSolomonDecoder_supports(original_count, recovery_count)
  THEN UnsupportedShardCount(original_count, recovery_count)
  ELSE IF Len(recovery) = 0
  THEN \* NO RECOVERY SHARDS
       IF Len(original) = original_count
       THEN [kind |-> "Ok", map |-> <<>>]
       ELSE NotEnoughShards(original_count, Len(original), 0)
  ELSE decode_collect(
         decode_add_recovery(
           decode_add_original(
             ReedSolomonDecoder_new(original_count, recovery_count,
                                    Len2(recovery[1].shard)),
             original, 1, overflow_checks),
           recovery, 1, overflow_checks))

\* The iterables a caller passes: up to MaxCount entries with indexes up to
\* MaxCount, in any order and with repetitions
IndexSeqs == UNION {[1..n -> 0..MaxCount] : n \in 0..MaxCount}

OriginalEntries(cfg, d, indexes) ==
  [i \in DOMAIN indexes |->
     [index |-> indexes[i], shard |-> OriginalShard(d, indexes[i], cfg.shard_bytes)]]

RecoveryEntries(cfg, d, indexes) ==
  [i \in DOMAIN indexes |->
     [index |-> indexes[i],
      shard |-> RecoveryShard("DefaultRate", cfg, d, indexes[i], cfg.shard_bytes)]]

\* A caller about to call decode(original_count, recovery_count, original, recovery)
LibInit ==
  \E cfg \in ConfigArgs, d \in DataSets, originals \in IndexSeqs, recoveries \in IndexSeqs :
    /\ tables = Engine_new("Naive")
    /\ role = "Caller"
    /\ rate = "DefaultRate"
    /\ self = [inner |-> "None", work |-> DecoderWork_new]
    /\ phase = "Calling"
    /\ iter = NoIter
    /\ last = [op |-> "none", ret |-> Ok, fresh_ret |-> Ok]
    /\ given = [d |-> d, original |-> OriginalEntries(cfg, d, originals),
                recovery |-> RecoveryEntries(cfg, d, recoveries)]
    /\ config = cfg
    /\ boundary = "new"
    /\ rounds = 1
    /\ previous = NoPrevious
    /\ fresh = [inner |-> "None", work |-> DecoderWork_new]

\* decode(original_count, recovery_count, original, recovery) runs and returns
LibDecode(overflow_checks) ==
  /\ role = "Caller"
  /\ phase = "Calling"
  /\ phase' = "Returned"
  /\ last' = [op |-> "decode", pre |-> given,
              ret |-> decode(config.original_count, config.recovery_count,
                             given.original, given.recovery, overflow_checks),
              fresh_ret |-> Ok]
  /\ UNCHANGED <<tables, role, rate, self, fresh, iter, given, config, boundary, rounds,
                 previous>>

\* ======================================================================
\* Specification

\* Every operation of a session, with well-formed calls: shards of the
\* configured size under indexes below MaxCount
Next ==
  \/ EncoderAddOriginalShard(config.shard_bytes)
  \/ EncoderEncode
  \/ \E d \in DataSets : EncoderResultDrop(d)
  \/ \E cfg \in ConfigArgs, d \in DataSets :
       EncoderReset(cfg.original_count, cfg.recovery_count, cfg.shard_bytes, d)
  \/ \E ra \in Rates, cfg \in ConfigArgs, d \in DataSets :
       EncoderIntoPartsNew(ra, cfg.original_count, cfg.recovery_count, cfg.shard_bytes, d)
  \/ \E index \in 0..(MaxCount - 1) :
       DecoderAddOriginalShard(index, config.shard_bytes, FALSE)
  \/ \E index \in 0..(MaxCount - 1) :
       DecoderAddRecoveryShard(index, config.shard_bytes, FALSE)
  \/ DecoderDecode
  \/ \E index \in 0..(MaxCount - 1) : RestoredOriginalCall(index, FALSE)
  \/ RestoredOriginalIter
  \/ RestoredOriginalNext
  \/ \E d \in DataSets : DecoderResultDrop(d)
  \/ \E cfg \in ConfigArgs, d \in DataSets :
       DecoderReset(cfg.original_count, cfg.recovery_count, cfg.shard_bytes, d)
  \/ \E ra \in Rates, cfg \in ConfigArgs, d \in DataSets :
       DecoderIntoPartsNew(ra, cfg.original_count, cfg.recovery_count, cfg.shard_bytes, d)

Spec == Init /\ [][Next]_vars

\* The calls of one round with every argument: shards of either length,
\* indexes up to MaxCount and the largest usize, in both build profiles
NextCall ==
  \/ \E len \in LenArgs : EncoderAddOriginalShard(len)
  \/ EncoderEncode
  \/ \E index \in IndexArgs, len \in LenArgs : \E overflow_checks \in Profiles(index) :
       DecoderAddOriginalShard(index, len, overflow_checks)
  \/ \E index \in IndexArgs, len \in LenArgs : \E overflow_checks \in Profiles(index) :
       DecoderAddRecoveryShard(index, len, overflow_checks)
  \/ DecoderDecode
  \/ \E index \in IndexArgs : \E overflow_checks \in Profiles(index) :
       RestoredOriginalCall(index, overflow_checks)
  \/ RestoredOriginalIter
  \/ RestoredOriginalNext

CallSpec == Init /\ [][NextCall]_vars

\* One call of the function decode of lib.rs, in either build profile
LibNext == \E overflow_checks \in BOOLEAN : LibDecode(overflow_checks)

LibSpec == LibInit /\ [][LibNext]_vars

\* ======================================================================
\* Properties

\* The work object has nothing marked as received
NothingReceived(ro, work) ==
  IF ro = "Encoder"
  THEN work.original_received_count = 0
  ELSE /\ work.original_received_count = 0
       /\ work.recovery_received_count = 0
       /\ work.received.ones = {}

\* What the result view of the session returns: every recovery shard of an
\* EncoderResult, every restored original of a DecoderResult
Outputs(ro, work) ==
  IF ro = "Encoder" THEN RecoveryOutputs(work) ELSE RestoredOutputs(work)

\* The original indexes below original_count the decoder was not given
Missing == (0..(config.original_count - 1)) \ given.originals

\* The p-th smallest element of the set S of numbers
Nth(S, p) == CHOOSE x \in S : Cardinality({y \in S : y < x}) = p - 1

\* C1: Round trip.  When a decoder has been given recovery shards that an
\* encoder of the same rate and configuration produced from k originals,
\* and originals of the same data, at least k shards in all, decode returns
\* Ok and restored_original(j) is byte for byte original j for every
\* original j that was not given.
C1_RoundTrip ==
  /\ (/\ role = "Decoder"
      /\ last.op = "decode"
      /\ Cardinality(given.originals) + Cardinality(given.recoveries)
           >= config.original_count)
     => last.ret = Ok
  /\ (role = "Decoder" /\ phase = "Result")
     => \A j \in Missing :
          DecoderWork_restored_original(self.work, j, FALSE)
            = [kind |-> "Some", shard |-> Payload(given.d, j, config.shard_bytes)]

\* a decoder that was given no original has restored all MaxCount of them
\* from MaxCount recovery shards
C1_Witness ==
  /\ role = "Decoder"
  /\ phase = "Result"
  /\ last.op = "decode"
  /\ config.original_count = MaxCount
  /\ given.originals = {}
  /\ Cardinality(given.recoveries) = MaxCount

\* C2: The empty inner state of a DefaultRate session exists only inside
\* reset: whenever an operation has returned, also a reset that returned
\* an error, the inner state is High or Low, and no call reaches an
\* unreachable!() arm.
C2_InnerNeverEmpty ==
  /\ phase \in {"Ready", "Result"} => self.inner \in {"High", "Low"}
  /\ last.ret # Unreachable

\* C3: After a successful reset, or a construction over the work taken from
\* another session with into_parts, the session behaves as one newly
\* constructed with the same configuration: nothing is marked received,
\* every following call returns what it returns on the new session, and the
\* result view holds the same shards.
C3_ResetLikeNew ==
  boundary \in {"reset", "into_parts"} =>
    /\ last.ret = last.fresh_ret
    /\ (last.op \in {"reset", "into_parts_new"} /\ last.ret = Ok)
       => NothingReceived(role, self.work)
    /\ phase = "Result" => Outputs(role, self.work) = Outputs(role, fresh.work)

\* a decoder that was reset has restored an original, in a work object that
\* is not the one of a newly constructed decoder
C3_Witness ==
  /\ boundary = "reset"
  /\ role = "Decoder"
  /\ phase = "Result"
  /\ Missing # {}
  /\ self.work # fresh.work

\* C4: After an EncoderResult or DecoderResult has been dropped nothing is
\* marked received while the configuration and the size of the arena are
\* as before; in the round that follows every call returns what it returns
\* on a newly constructed session, and the same inputs as in the round
\* before give the same output bytes.
C4_DropStartsCleanRound ==
  /\ last.op = "drop" =>
       /\ NothingReceived(role, self.work)
       /\ self.work.original_count = last.pre_work.original_count
       /\ self.work.recovery_count = last.pre_work.recovery_count
       /\ self.work.shard_bytes = last.pre_work.shard_bytes
       /\ self.work.shards.shard_count = last.pre_work.shards.shard_count
       /\ self.work.shards.shard_bytes = last.pre_work.shards.shard_bytes
  /\ boundary = "drop" =>
       /\ last.ret = last.fresh_ret
       /\ phase = "Result" => Outputs(role, self.work) = Outputs(role, fresh.work)
       /\ (phase = "Result" /\ given = previous.given)
          => Outputs(role, self.work) = previous.outputs

\* a decoder has restored an original for the second time from the inputs
\* of the round before
C4_Witness ==
  /\ boundary = "drop"
  /\ role = "Decoder"
  /\ phase = "Result"
  /\ given = previous.given
  /\ Missing # {}

\* C5: Decoder add_original_shard(index, shard) returns
\* InvalidOriginalShardIndex if index >= k, else DuplicateOriginalShardIndex
\* if that original was accepted in this round, else DifferentShardSize if
\* the length is not shard_bytes, else Ok; add_recovery_shard likewise with
\* m and the recovery errors; what was accepted of the other kind never
\* changes the outcome.
C5_DecoderAddOutcome ==
  /\ (role = "Decoder" /\ last.op = "add_original_shard") =>
       last.ret = IF last.index >= config.original_count
                  THEN InvalidOriginalShardIndex(config.original_count, last.index)
                  ELSE IF last.index \in last.pre.originals
                  THEN DuplicateOriginalShardIndex(last.index)
                  ELSE IF Len2(last.shard) # config.shard_bytes
                  THEN DifferentShardSize(config.shard_bytes, Len2(last.shard))
                  ELSE Ok
  /\ (role = "Decoder" /\ last.op = "add_recovery_shard") =>
       last.ret = IF last.index >= config.recovery_count
                  THEN InvalidRecoveryShardIndex(config.recovery_count, last.index)
                  ELSE IF last.index \in last.pre.recoveries
                  THEN DuplicateRecoveryShardIndex(last.index)
                  ELSE IF Len2(last.shard) # config.shard_bytes
                  THEN DifferentShardSize(config.shard_bytes, Len2(last.shard))
                  ELSE Ok

\* C6: decode returns NotEnoughShards{k, o, r} exactly when o + r < k, o and
\* r being the numbers of originals and recoveries accepted in this round,
\* and Ok in every other case.
C6_DecodeOutcome ==
  (role = "Decoder" /\ last.op = "decode") =>
    last.ret = IF Cardinality(last.pre.originals) + Cardinality(last.pre.recoveries)
                    < config.original_count
               THEN NotEnoughShards(config.original_count,
                                    Cardinality(last.pre.originals),
                                    Cardinality(last.pre.recoveries))
               ELSE Ok

\* C7: restored_original(i) of a DecoderResult is Some exactly when i < k
\* and original i was not given in this round, else None; the iterator
\* returns exactly those indexes in increasing order, each once, and None at
\* every call after them; when all k originals were given nothing is
\* restored.
C7_RestoredOriginals ==
  /\ (role = "Decoder" /\ last.op = "restored_original") =>
       last.ret.kind = IF last.index \in Missing THEN "Some" ELSE "None"
  /\ (role = "Decoder" /\ phase = "Result" /\ iter.active) =>
       \A p \in DOMAIN iter.items :
         iter.items[p] = IF p <= Cardinality(Missing) THEN Nth(Missing, p) ELSE -1
  /\ (role = "Decoder" /\ phase = "Result" /\ Missing = {}) =>
       RestoredOutputs(self.work) = <<>>

\* C8: Encoder add_original_shard returns, in any state of a round,
\* TooManyOriginalShards{k} if k originals were accepted in this round, else
\* DifferentShardSize if the length is not shard_bytes, else Ok; an accepted
\* shard becomes the original whose index is the number accepted before it.
C8_EncoderAddOutcome ==
  (role = "Encoder" /\ last.op = "add_original_shard") =>
    /\ last.ret = IF Len(last.pre.shards) = config.original_count
                  THEN TooManyOriginalShards(config.original_count)
                  ELSE IF Len2(last.shard) # config.shard_bytes
                  THEN DifferentShardSize(config.shard_bytes, Len2(last.shard))
                  ELSE Ok
    /\ last.ret = Ok => self.work.shards.data[Len(last.pre.shards)] = last.shard

\* C9: encode returns TooFewOriginalShards{k, received} whenever fewer than
\* k originals were accepted in this round, also right after a result was
\* dropped, and an EncoderResult exactly when k were accepted.
C9_EncodeOutcome ==
  (role = "Encoder" /\ last.op = "encode") =>
    /\ last.ret = IF Len(last.pre.shards) < config.original_count
                  THEN TooFewOriginalShards(config.original_count, Len(last.pre.shards))
                  ELSE Ok
    /\ phase = "Result" <=> Len(last.pre.shards) = config.original_count

\* The position of the first entry of `original` that fails the validation
\* of add_original_shard, 0 when every entry passes
FirstRejected(original, original_count) ==
  LET rejected == {i \in DOMAIN original :
                     \/ original[i].index >= original_count
                     \/ \E h \in 1..(i - 1) : original[h].index = original[i].index}
  IN IF rejected = {} THEN 0 ELSE Nth(rejected, 1)

\* C10: decode(k, m, originals, recoveries) with a supported (k, m), and no
\* earlier check failing, returns InvalidOriginalShardIndex for an original
\* whose index is >= k and DuplicateOriginalShardIndex for an index given
\* twice, whether recoveries is empty or not; it returns Ok only if every
\* index below k is among the originals given or a key of the map returned.
C10_DecodeSurfacesValidation ==
  (/\ role = "Caller"
   /\ phase = "Returned"
   /\ ReedSolomonDecoder_supports(config.original_count, config.recovery_count)
   /\ config.shard_bytes % BLOCK_BYTES = 0) =>
    LET original == given.original
        rejected == FirstRejected(original, config.original_count)
    IN /\ rejected # 0 =>
            last.ret = IF original[rejected].index >= config.original_count
                       THEN InvalidOriginalShardIndex(config.original_count,
                                                      original[rejected].index)
                       ELSE DuplicateOriginalShardIndex(original[rejected].index)
       /\ last.ret.kind = "Ok" =>
            \A j \in 0..(config.original_count - 1) :
              \/ \E i \in DOMAIN original : original[i].index = j
              \/ j \in DOMAIN last.ret.map

\* ======================================================================
\* Arrival orders: two decoders of one configuration are given the same
\* shards, each in an order of its own (reed_solomon.rs, add_original_shard
\* and add_recovery_shard of ReedSolomonDecoder; rate.rs, RateDecoder)

\* the shards of a configuration: ("original", index) and ("recovery", index)
Entries(cfg) ==
  {[kind |-> "original", index |-> i] : i \in 0..(cfg.original_count - 1)}
    \cup {[kind |-> "recovery", index |-> i] : i \in 0..(cfg.recovery_count - 1)}

\* every order in which the shards of the set S can arrive
RECURSIVE Arrivals(_)
Arrivals(S) ==
  IF S = {} THEN {<<>>}
  ELSE UNION {{<<x>> \o rest : rest \in Arrivals(S \ {x})} : x \in S}

\* the bytes of an entry: originals of data set g.d, recovery shards that
\* an encoder produced for data set g.rd
EntryShard(ra, cfg, g, entry) ==
  IF entry.kind = "original"
  THEN OriginalShard(g.d, entry.index, cfg.shard_bytes)
  ELSE RecoveryShard(ra, cfg, g.rd, entry.index, cfg.shard_bytes)

\* add_original_shard or add_recovery_shard, by the kind of the entry
RateDecoder_add_shard(session, entry, shard) ==
  IF entry.kind = "original"
  THEN RateDecoder_add_original_shard(session, entry.index, shard, FALSE)
  ELSE RateDecoder_add_recovery_shard(session, entry.index, shard, FALSE)

\* Two decoders after RateDecoder::new returned Ok; `self` will be given
\* the shards in the order given.a and `fresh` in the order given.b
OrderInit ==
  \E ra \in Rates, cfg \in ConfigArgs, d \in DataSets, rd \in DataSets :
    \E new \in {RateDecoder_new(ra, cfg.original_count, cfg.recovery_count,
                                cfg.shard_bytes, DecoderWork_new)} :
    \E S \in SUBSET Entries(cfg) :
    \E a \in Arrivals(S), b \in Arrivals(S) :
       /\ new.ret = Ok
       /\ tables = Engine_new("Naive")
       /\ role = "Decoder"
       /\ rate = ra
       /\ self = Session(new)
       /\ fresh = Session(new)
       /\ phase = "Ready"
       /\ iter = NoIter
       /\ last = [op |-> "new", ret |-> Ok, fresh_ret |-> Ok]
       /\ given = [d |-> d, rd |-> rd, a |-> a, b |-> b, added |-> 0,
                   originals |-> {e.index : e \in {x \in S : x.kind = "original"}},
                   recoveries |-> {e.index : e \in {x \in S : x.kind = "recovery"}}]
       /\ config = cfg
       /\ boundary = "new"
       /\ rounds = 1
       /\ previous = NoPrevious

\* each decoder is given the next shard of its order
OrderAddShard ==
  /\ phase = "Ready"
  /\ given.added < Len(given.a)
  /\ \E ea \in {given.a[given.added + 1]}, eb \in {given.b[given.added + 1]} :
     \E r \in {RateDecoder_add_shard(self, ea, EntryShard(rate, config, given, ea))},
        f \in {RateDecoder_add_shard(fresh, eb, EntryShard(rate, config, given, eb))} :
        /\ self' = [self EXCEPT !.work = r.work]
        /\ fresh' = [fresh EXCEPT !.work = f.work]
        /\ phase' = AfterCall(r.ret, "Ready")
        /\ last' = [op |-> "add_" \o ea.kind \o "_shard", index |-> ea.index,
                    pre |-> given, ret |-> r.ret, fresh_ret |-> f.ret]
  /\ given' = [given EXCEPT !.added = @ + 1]
  /\ UNCHANGED <<tables, role, rate, iter, config, boundary, rounds, previous>>

\* both decoders have been given every shard: decode
OrderDecode ==
  /\ given.added = Len(given.a)
  /\ DecoderDecode

OrderNext == OrderAddShard \/ OrderDecode

OrderSpec == OrderInit /\ [][OrderNext]_vars

\* C11: Decoder inputs may arrive in any order.  Two decoders of the same
\* configuration that had the same shards accepted, each in any order and
\* interleaving of originals and recoveries, return the same from decode,
\* and their results restore the same indexes with the same bytes.
C11_AnyArrivalOrder ==
  (role = "Decoder" /\ last.op = "decode") =>
    /\ last.ret = last.fresh_ret
    /\ last.ret = Ok => RestoredOutputs(self.work) = RestoredOutputs(fresh.work)

\* decode restored an original for two decoders that were given at least
\* three shards, the recovery shards in opposite orders
C11_Witness ==
  /\ role = "Decoder"
  /\ last.op = "decode"
  /\ phase = "Result"
  /\ Missing # {}
  /\ given.a # given.b
  /\ Len(given.a) > config.original_count
  /\ \E i, j \in DOMAIN given.a :
       /\ i < j
       /\ given.a[i] = [kind |-> "recovery", index |-> 1]
       /\ given.a[j] = [kind |-> "recovery", index |-> 0]
  /\ \E i, j \in DOMAIN given.b :
       /\ i < j
       /\ given.b[i] = [kind |-> "recovery", index |-> 0]
       /\ given.b[j] = [kind |-> "recovery", index |-> 1]

\* ======================================================================
\* Shard counts and sizes: the checks of the arguments of new, reset and
\* supports, for counts and sizes up to the largest usize

\* shard counts: those around the support limits of the field, half the
\* word range (whose next power of two is the largest that fits), and the
\* largest usize
CountArgs ==
  (0..(GF_ORDER + 1)) \cup {WordModulus \div 2, (WordModulus \div 2) + 1, USIZE_MAX}

\* A caller about to pass (original_count, recovery_count) and a shard size
ArgInit ==
  \E original_count \in CountArgs, recovery_count \in CountArgs :
    /\ tables = Engine_new("Naive")
    /\ role = "Caller"
    /\ rate = "DefaultRate"
    /\ self = [inner |-> "None", work |-> DecoderWork_new]
    /\ phase = "Calling"
    /\ iter = NoIter
    /\ last = [op |-> "none", ret |-> Ok, fresh_ret |-> Ok]
    /\ given = NewGiven(0)
    /\ config = Config(original_count, recovery_count, BLOCK_BYTES)
    /\ boundary = "new"
    /\ rounds = 1
    /\ previous = NoPrevious
    /\ fresh = [inner |-> "None", work |-> DecoderWork_new]

\* use_high_rate(original_count, recovery_count) runs and returns
UseHighRate(overflow_checks) ==
  /\ role = "Caller"
  /\ phase = "Calling"
  /\ phase' = "Returned"
  /\ last' = [op |-> "use_high_rate", overflow_checks |-> overflow_checks,
              ret |-> use_high_rate(config.original_count, config.recovery_count,
                                    overflow_checks),
              fresh_ret |-> Ok]
  /\ UNCHANGED <<tables, role, rate, self, iter, given, config, boundary, rounds,
               previous, fresh>>

ArgNext == \E overflow_checks \in BOOLEAN : UseHighRate(overflow_checks)

ArgSpec == ArgInit /\ [][ArgNext]_vars

\* C12: DefaultRate selection.  use_high_rate(k, m) returns
\* UnsupportedShardCount{k, m} exactly when k = 0, m = 0, k > GF_ORDER,
\* m > GF_ORDER or next_power_of_two(min(k, m)) + max(k, m) > GF_ORDER, in
\* either build profile and for every usize k and m (no overflow panic, no
\* wrapped sum); otherwise it selects HighRate iff next_power_of_two(k) >
\* next_power_of_two(m), or the two are equal and k <= m, and LowRate
\* otherwise.
C12_UseHighRate ==
  (role = "Caller" /\ last.op = "use_high_rate") =>
    LET k == config.original_count
        m == config.recovery_count
    IN last.ret =
         IF \/ k = 0
            \/ m = 0
            \/ k > GF_ORDER
            \/ m > GF_ORDER
            \/ next_power_of_two(Min(k, m)) + Max(k, m) > GF_ORDER
         THEN UnsupportedShardCount(k, m)
         ELSE [kind |-> "Ok",
               high |-> \/ next_power_of_two(k) > next_power_of_two(m)
                        \/ /\ next_power_of_two(k) = next_power_of_two(m)
                           /\ k <= m]

\* use_high_rate returned for the largest usize as both counts, in a build
\* with overflow checks
C12_Witness ==
  /\ role = "Caller"
  /\ last.op = "use_high_rate"
  /\ last.overflow_checks
  /\ config.original_count = USIZE_MAX
  /\ config.recovery_count = USIZE_MAX
  /\ last.ret = UnsupportedShardCount(USIZE_MAX, USIZE_MAX)

\* ======================================================================
\* Engine operations: one operation of trait Engine on one input, run by
\* the Naive engine and by the NoSimd engine (engine_naive.rs,
\* engine_nosimd.rs, engine.rs)

\* shards of the largest buffer a transform is run on
MaxSize == 8

\* sizes of the transforms: the powers of two up to MaxSize
Sizes == {n \in 1..MaxSize : next_power_of_two(n) = n}

ZeroShard == Zeroes(BLOCK_BYTES)

\* Buffers of n shards of one block: every buffer with a single byte that
\* is not zero, and for every data set the buffer of its first n shards
Buffers(n) ==
  {Table([p \in 0..(n - 1) |-> IF p = q THEN [ZeroShard EXCEPT ![j] = v] ELSE ZeroShard]) :
     q \in 0..(n - 1), j \in 0..(BLOCK_BYTES - 1), v \in 1..(BYTE_RANGE - 1)}
    \cup {Table([p \in 0..(n - 1) |-> Payload(d, p, BLOCK_BYTES)]) : d \in DataSets}

\* the buffer with everything from position `from` on zeroed
ZeroTail(data, from) ==
  Table([p \in DOMAIN data |-> IF p >= from THEN ZeroShard ELSE data[p]])

\* [GfElement; GF_ORDER] arrays: one element that is not zero, the first
\* n elements 1 (an erasure pattern), and the logarithms
Arrays ==
  {[Zeroes(GF_ORDER) EXCEPT ![q] = v] : q \in 0..(GF_ORDER - 1), v \in 1..GF_MODULUS}
    \cup {[i \in 0..(GF_ORDER - 1) |-> IF i < n THEN 1 ELSE 0] : n \in 1..GF_ORDER}
    \cup {[Log EXCEPT ![0] = 0]}

\* every shard of one block
Shards == [0..(BLOCK_BYTES - 1) -> 0..(BYTE_RANGE - 1)]

\* The inputs of one operation.  fft and ifft are called with skew_delta 0
\* or pos + size (fft_skew_end, ifft_skew_end); formal_derivative is called
\* on a power of two of shards (work_count); buffers of up to max_size shards
OpInputs(max_size) ==
  {[op |-> op, data |-> IF zero_tail THEN ZeroTail(data, pos + truncated_size) ELSE data,
    pos |-> pos, size |-> size, truncated_size |-> truncated_size,
    skew_delta |-> skew_delta, zero_tail |-> zero_tail] :
     op \in {"fft", "ifft"}, zero_tail \in BOOLEAN,
     <<pos, size, truncated_size, skew_delta, data>> \in
       UNION {UNION {{<<pos, size, t, sd, data>> :
                        t \in 0..size, sd \in {0, pos + size}, data \in Buffers(pos + size)} :
                       pos \in {0, size} \cap (0..(max_size - size))} : size \in Sizes \cap (1..max_size)}}
  \cup
  {[op |-> "fwht",
    data |-> IF zero_tail
             THEN [i \in 0..(GF_ORDER - 1) |-> IF i >= truncated_size THEN 0 ELSE data[i]]
             ELSE data,
    truncated_size |-> truncated_size, zero_tail |-> zero_tail] :
     data \in Arrays, truncated_size \in 0..GF_ORDER, zero_tail \in BOOLEAN}
  \cup
  {[op |-> "mul", x |-> x, log_m |-> log_m] : x \in Shards, log_m \in 0..GF_MODULUS}
  \cup
  {[op |-> "xor", x |-> x, y |-> Payload(d, index, BLOCK_BYTES)] :
     x \in Shards, d \in DataSets, index \in 0..1}
  \cup
  {[op |-> "formal_derivative", data |-> data] :
     data \in UNION {Buffers(n) : n \in Sizes \cap (1..max_size)}}
  \cup
  {[op |-> "xor_within", data |-> data, x |-> x, y |-> y, count |-> count] :
     <<x, y, count, data>> \in
       UNION {{<<x, y, count, data>> :
                 x \in {0, count}, y \in {0, count}, data \in Buffers(2 * count)} :
                count \in 1..(max_size \div 2)}}

\* A caller about to run one operation on one input
OpInit ==
  \E input \in OpInputs(MaxSize) :
    /\ input.op = "xor_within" => input.x # input.y
    /\ tables = Engine_new("NoSimd")
    /\ role = "Caller"
    /\ rate = "DefaultRate"
    /\ self = [inner |-> "None", work |-> DecoderWork_new]
    /\ phase = "Calling"
    /\ iter = NoIter
    /\ last = [op |-> "none", ret |-> Ok, fresh_ret |-> Ok]
    /\ given = input
    /\ config = Config(0, 0, BLOCK_BYTES)
    /\ boundary = "new"
    /\ rounds = 1
    /\ previous = NoPrevious
    /\ fresh = [inner |-> "None", work |-> DecoderWork_new]

\* the operation has run in each engine: what each left in the buffer
Ran(op, outputs) ==
  /\ role = "Caller"
  /\ phase = "Calling"
  /\ given.op = op
  /\ phase' = "Returned"
  /\ last' = [op |-> op, ret |-> Ok, fresh_ret |-> Ok, out |-> outputs]
  /\ UNCHANGED <<tables, role, rate, self, iter, given, config, boundary, rounds,
               previous, fresh>>

OpFft ==
  Ran("fft", [E \in Engines |->
                Engine_fft(E, given.data, given.pos, given.size, given.truncated_size,
                           given.skew_delta)])

OpIfft ==
  Ran("ifft", [E \in Engines |->
                 Engine_ifft(E, given.data, given.pos, given.size, given.truncated_size,
                             given.skew_delta)])

OpFwht ==
  Ran("fwht", [E \in Engines |-> Engine_fwht(E, given.data, given.truncated_size)])

OpMul == Ran("mul", [E \in Engines |-> Engine_mul(E, given.x, given.log_m)])

OpXor == Ran("xor", [E \in Engines |-> Engine_xor(E, given.x, given.y)])

OpFormalDerivative ==
  Ran("formal_derivative",
      [E \in Engines |-> formal_derivative(E, given.data, Len2(given.data))])

OpXorWithin ==
  Ran("xor_within",
      [E \in Engines |-> xor_within(E, given.data, given.x, given.y, given.count)])

OpNext ==
  \/ OpFft
  \/ OpIfft
  \/ OpFwht
  \/ OpMul
  \/ OpXor
  \/ OpFormalDerivative
  \/ OpXorWithin

OpSpec == OpInit /\ [][OpNext]_vars

ZeroBeyondTruncatedSize ==
  IF given.op = "fwht"
  THEN \A i \in given.truncated_size..(GF_ORDER - 1) : given.data[i] = 0
  ELSE \A p \in (given.pos + given.truncated_size)..(given.pos + given.size - 1) :
         given.data[p] = ZeroShard

RECURSIVE AddShards(_, _, _, _, _, _)
AddShards(session, ra, cfg, g, seq, i) ==
  IF i <= Len(seq)
  THEN LET r == RateDecoder_add_shard(session, seq[i], EntryShard(ra, cfg, g, seq[i]))
       IN AddShards([session EXCEPT !.work = r.work], ra, cfg, g, seq, i + 1)
  ELSE session

\* test_util::roundtrip in the engine of `tables`: the recovery shards of
\* a new encoder given the originals of data set g.d; what decode returns
\* to a new decoder given the shards g.a, and the originals it restores
roundtrip(ra, cfg, g) ==
  LET recovery == EncodedRecovery(ra, cfg.original_count, cfg.recovery_count,
                                  cfg.shard_bytes, g.d)
      new == RateDecoder_new(ra, cfg.original_count, cfg.recovery_count, cfg.shard_bytes,
                             DecoderWork_new)
      result == RateDecoder_decode(AddShards(Session(new), ra, cfg, g, g.a, 1))
  IN [recovery |-> recovery, ret |-> result.ret,
      restored |-> IF result.ret = Ok THEN RestoredOutputs(result.work) ELSE <<>>]

\* A caller with a first engine, about to run the round trip
EngineInit ==
  \E E \in Engines, ra \in Rates, cfg \in ConfigArgs, d \in DataSets, rd \in DataSets :
    \E S \in SUBSET Entries(cfg) :
    \E a \in {CHOOSE a \in Arrivals(S) : TRUE} :
       /\ RateDecoder_new(ra, cfg.original_count, cfg.recovery_count, cfg.shard_bytes,
                          DecoderWork_new).ret = Ok
       /\ tables = Engine_new(E)
       /\ role = "Caller"
       /\ rate = ra
       /\ self = [inner |-> "None", work |-> DecoderWork_new]
       /\ fresh = [inner |-> "None", work |-> DecoderWork_new]
       /\ phase = "Calling"
       /\ iter = NoIter
       /\ last = [op |-> "none", ret |-> Ok, fresh_ret |-> Ok, out |-> <<>>]
       /\ given = [d |-> d, rd |-> rd, a |-> a,
                   originals |-> {e.index : e \in {x \in S : x.kind = "original"}},
                   recoveries |-> {e.index : e \in {x \in S : x.kind = "recovery"}}]
       /\ config = cfg
       /\ boundary = "new"
       /\ rounds = 1
       /\ previous = NoPrevious

\* the round trip runs in the engine of `tables`
Roundtrip ==
  /\ role = "Caller"
  /\ phase = "Calling"
  /\ phase' = "Returned"
  /\ \E out \in {roundtrip(rate, config, given)} :
       last' = [op |-> "roundtrip", ret |-> out.ret, fresh_ret |-> out.ret,
                out |-> (tables.engine :> out) @@ last.out]
  /\ UNCHANGED <<tables, role, rate, self, iter, given, config, boundary, rounds,
               previous, fresh>>

\* Naive::new() or NoSimd::new(): the caller goes on with the other engine
EngineNew(E) ==
  /\ role = "Caller"
  /\ phase = "Returned"
  /\ E \notin DOMAIN last.out
  /\ tables' = Engine_new(E)
  /\ phase' = "Calling"
  /\ UNCHANGED <<role, rate, self, iter, last, given, config, boundary, rounds,
               previous, fresh>>

EngineNext == Roundtrip \/ \E E \in Engines : EngineNew(E)

EngineSpec == EngineInit /\ [][EngineNext]_vars

\* C13: Visible results do not depend on the engine.  For every rate,
\* supported (k, m), shard size, originals and set of supplied shards, the
\* recovery shards an encoder returns, the result of decode and the
\* restored originals are byte-identical in a session over the Naive
\* engine and in a session over the NoSimd engine.
C13_EngineIndependentResults ==
  (role = "Caller" /\ last.op = "roundtrip" /\ DOMAIN last.out = Engines) =>
    last.out["Naive"] = last.out["NoSimd"]

\* both engines have encoded two originals and restored both of them from
\* the two recovery shards
C13_Witness ==
  /\ role = "Caller"
  /\ last.op = "roundtrip"
  /\ DOMAIN last.out = Engines
  /\ config.original_count = MaxCount
  /\ given.originals = {}
  /\ given.recoveries = 0..(MaxCount - 1)
  /\ DOMAIN last.out["NoSimd"].restored = 0..(MaxCount - 1)
  /\ DOMAIN last.out["NoSimd"].recovery = 0..(MaxCount - 1)

\* Rate::supports of the rate
Rate_supports(ra, original_count, recovery_count) ==
  CASE ra = "HighRate" -> HighRate_supports(original_count, recovery_count)
    [] ra = "LowRate" -> LowRate_supports(original_count, recovery_count)
    [] ra = "DefaultRate" -> DefaultRate_supports(original_count, recovery_count)

\* C15: new and reset of every encoder and decoder (HighRate, LowRate,
\* DefaultRate) return UnsupportedShardCount when the shard count is not
\* supported, whatever shard_bytes is; InvalidShardSize{shard_bytes} when
\* the count is supported and shard_bytes is 0 or no multiple of the block
\* size; and Ok for every positive multiple of the block size.
C15_ShardSizeValidation ==
  (role \in Roles /\ last.op \in {"reset", "into_parts_new"}) =>
    last.ret =
      IF ~Rate_supports(last.rate, last.args.original_count, last.args.recovery_count)
      THEN UnsupportedShardCount(last.args.original_count, last.args.recovery_count)
      ELSE IF last.args.shard_bytes = 0 \/ last.args.shard_bytes % BLOCK_BYTES # 0
      THEN InvalidShardSize(last.args.shard_bytes)
      ELSE Ok

\* ======================================================================
\* engine/tables.rs - the tables as process-wide OnceCell statics, and threads
\* that create their first engine concurrently.  In this specification
\* `tables` holds the four cells and `self` the threads.

MaxThreads == 2

Threads == 1..MaxThreads

\* static EXP_LOG, LOG_WALSH, MUL16, SKEW
Cells == {"EXP_LOG", "LOG_WALSH", "MUL16", "SKEW"}

\* OnceCell::new(): nothing stored, no initializer elected
\* Option<T> of a slot, of a reference a thread holds, of the value new() returned
Nothing == [kind |-> "None"]

Some(table) == [kind |-> "Some", table |-> table]

OnceCell_new == [state |-> "Incomplete", slot |-> Nothing, runner |-> 0, built |-> 0]

\* the get_or_init calls of Naive::new() and of NoSimd::new(), in order
Engine_new_calls(E) ==
  IF E = "Naive" THEN <<"EXP_LOG", "SKEW", "LOG_WALSH">>
  ELSE <<"MUL16", "SKEW", "LOG_WALSH">>

\* a closure that asks for its own cell
closure_calls_own_cell(cell) == <<cell>>

\* the initialize_* call a cell's closure begins with: initialize_exp_log()
\* in the closures of LOG_WALSH, MUL16 and SKEW, none in that of EXP_LOG
closure_calls(cell) == IF cell = "EXP_LOG" THEN <<>> ELSE <<"EXP_LOG">>

\* initialize_log_walsh::<E> of each engine, tabulated
LogWalshOf == Table([E \in Engines |-> initialize_log_walsh(E)])

\* the table a cell's closure builds in its own Box, from the (exp, log) that
\* its initialize_exp_log() returned; run by a thread creating engine E
closure_value(cell, E, exp_log) ==
  CASE cell = "EXP_LOG" -> Some(initialize_exp_log)
    [] cell # "EXP_LOG" /\ exp_log # Some(initialize_exp_log) -> [kind |-> "Garbage"]
    [] cell = "SKEW" /\ exp_log = Some(initialize_exp_log) -> Some(initialize_skew)
    [] cell = "LOG_WALSH" /\ exp_log = Some(initialize_exp_log) ->
         Some(LogWalshOf[E])
    [] cell = "MUL16" /\ exp_log = Some(initialize_exp_log) -> Some(initialize_mul16)

\* the struct that new() returns: references to the tables it obtained
Engine_struct(E, got) ==
  IF E = "Naive" THEN [engine |-> E, exp_log |-> got["EXP_LOG"], skew |-> got["SKEW"]]
  ELSE [engine |-> E, mul16 |-> got["MUL16"], skew |-> got["SKEW"]]

\* a get_or_init under way: `at` is where the thread stands in it
Frame(cell, at) == [cell |-> cell, at |-> at, value |-> Nothing]

Top(th) == th.stack[Len(th.stack)]

Pop(th) == [th EXCEPT !.stack = SubSeq(@, 1, Len(@) - 1)]

SetTop(th, at) == [th EXCEPT !.stack[Len(th.stack)].at = at]

\* OnceCell::get_or_init begins: the stored value when the cell is complete,
\* otherwise the slow path
OnceCell_get_or_init(th, cell) ==
  IF tables[cell].state = "Complete"
  THEN [th EXCEPT !.got[cell] = tables[cell].slot]
  ELSE [th EXCEPT !.stack = Append(@, Frame(cell, "initialize"))]

ThreadInit ==
  \E engines \in [Threads -> Engines] :
    /\ tables = [cell \in Cells |-> OnceCell_new]
    /\ role = "Threads"
    /\ rate = "DefaultRate"
    /\ self = [t \in Threads |->
                 [engine |-> engines[t], calls |-> Engine_new_calls(engines[t]),
                  stack |-> <<>>, got |-> [cell \in Cells |-> Nothing],
                  waited |-> {}, ret |-> Nothing]]
    /\ phase = "Calling"
    /\ iter = NoIter
    /\ last = [op |-> "none", ret |-> Ok, fresh_ret |-> Ok]
    /\ given = NewGiven(0)
    /\ config = Config(1, 1, BLOCK_BYTES)
    /\ boundary = "new"
    /\ rounds = 1
    /\ previous = NoPrevious
    /\ fresh = [inner |-> "None", work |-> DecoderWork_new]

ThreadUnchanged ==
  UNCHANGED <<role, rate, phase, iter, last, given, config, boundary, rounds,
              previous, fresh>>

\* new() calls its next tables::initialize_*
NewCalls(t) ==
  /\ role = "Threads"
  /\ self[t].ret = Nothing
  /\ self[t].stack = <<>>
  /\ self[t].calls # <<>>
  /\ self' = [self EXCEPT ![t] = OnceCell_get_or_init([@ EXCEPT !.calls = Tail(@)],
                                                     Head(self[t].calls))]
  /\ UNCHANGED tables
  /\ ThreadUnchanged

\* the slow path reads the cell's state: complete, return the value;
\* incomplete, become the initializer; running, park until woken
Initialize(t) ==
  /\ role = "Threads"
  /\ self[t].stack # <<>>
  /\ Top(self[t]).at = "initialize"
  /\ LET cell == Top(self[t]).cell
     IN CASE tables[cell].state = "Complete" ->
               /\ self' = [self EXCEPT ![t] = [Pop(@) EXCEPT !.got[cell] = tables[cell].slot]]
               /\ UNCHANGED tables
          [] tables[cell].state = "Incomplete" ->
               /\ tables' = [tables EXCEPT ![cell].state = "Running", ![cell].runner = t]
               /\ self' = [self EXCEPT ![t] = SetTop(@, IF closure_calls(cell) = <<>>
                                                        THEN "build" ELSE "closure")]
          [] tables[cell].state = "Running" ->
               /\ self' = [self EXCEPT ![t] = [SetTop(@, "wait") EXCEPT
                                                 !.waited = @ \cup {cell}]]
               /\ UNCHANGED tables
  /\ ThreadUnchanged

\* the initializer is done and has woken the parked thread, which reads the
\* state again
Wake(t) ==
  /\ role = "Threads"
  /\ self[t].stack # <<>>
  /\ Top(self[t]).at = "wait"
  /\ tables[Top(self[t]).cell].state # "Running"
  /\ self' = [self EXCEPT ![t] = SetTop(@, "initialize")]
  /\ UNCHANGED tables
  /\ ThreadUnchanged

\* the closure of LOG_WALSH, MUL16 or SKEW calls initialize_exp_log()
ClosureCalls(t) ==
  /\ role = "Threads"
  /\ self[t].stack # <<>>
  /\ Top(self[t]).at = "closure"
  /\ self' = [self EXCEPT ![t] =
                OnceCell_get_or_init(SetTop(@, "build"),
                                     closure_calls(Top(self[t]).cell)[1])]
  /\ UNCHANGED tables
  /\ ThreadUnchanged

\* the closure builds its table in a Box of its own
Build(t) ==
  /\ role = "Threads"
  /\ self[t].stack # <<>>
  /\ Top(self[t]).at = "build"
  /\ LET cell == Top(self[t]).cell
     IN /\ \E value \in {closure_value(cell, self[t].engine, self[t].got["EXP_LOG"])} :
             self' = [self EXCEPT ![t] =
                        [SetTop(@, "store") EXCEPT !.stack[Len(self[t].stack)].value = value]]
        /\ tables' = [tables EXCEPT ![cell].built = @ + 1]
  /\ ThreadUnchanged

\* the closure has returned: its value goes into the cell's slot
Store(t) ==
  /\ role = "Threads"
  /\ self[t].stack # <<>>
  /\ Top(self[t]).at = "store"
  /\ tables' = [tables EXCEPT ![Top(self[t]).cell].slot = Top(self[t]).value]
  /\ self' = [self EXCEPT ![t] = SetTop(@, "complete")]
  /\ ThreadUnchanged

\* the cell becomes complete, the parked threads are woken, and get_or_init
\* returns the reference to the slot
Complete(t) ==
  /\ role = "Threads"
  /\ self[t].stack # <<>>
  /\ Top(self[t]).at = "complete"
  /\ LET cell == Top(self[t]).cell
     IN /\ tables' = [tables EXCEPT ![cell].state = "Complete"]
        /\ self' = [self EXCEPT ![t] = [Pop(@) EXCEPT !.got[cell] = tables[cell].slot]]
  /\ ThreadUnchanged

\* new() returns Self { .. }
Return(t) ==
  /\ role = "Threads"
  /\ self[t].ret = Nothing
  /\ self[t].stack = <<>>
  /\ self[t].calls = <<>>
  /\ self' = [self EXCEPT ![t].ret = Engine_struct(self[t].engine, self[t].got)]
  /\ UNCHANGED tables
  /\ ThreadUnchanged

ThreadStep(t) ==
  \/ NewCalls(t)
  \/ Initialize(t)
  \/ Wake(t)
  \/ ClosureCalls(t)
  \/ Build(t)
  \/ Store(t)
  \/ Complete(t)
  \/ Return(t)

ThreadNext == \E t \in Threads : ThreadStep(t)

\* every thread that can take a step is scheduled in the end
ThreadSpec == ThreadInit /\ [][ThreadNext]_vars /\ \A t \in Threads : WF_vars(ThreadStep(t))

\* the fully built table of a cell
Built(cell) ==
  CASE cell = "EXP_LOG" -> Some(initialize_exp_log)
    [] cell = "SKEW" -> Some(Skew)
    [] cell = "LOG_WALSH" -> Some(LogWalsh)
    [] cell = "MUL16" -> Some(Mul16)

\* the cells that the engines of the threads ask for
Demanded ==
  {"EXP_LOG"} \cup {Engine_new_calls(self[t].engine)[i] : i \in 1..3, t \in Threads}

AllReturned == \A t \in Threads : self[t].ret # Nothing

\* no table is built twice; a complete cell and every reference a thread has
\* obtained hold the fully built table; a returned engine holds the built
\* tables; a parked thread waits for a cell that another thread is initializing, a
\* parked initializer waits for EXP_LOG, whose initializer is never parked; when
\* all have returned every demanded table has been built once
OnceCells ==
  /\ \A cell \in Cells :
       /\ tables[cell].built <= 1
       /\ tables[cell].state = "Complete" => tables[cell].slot = Built(cell)
       /\ AllReturned => tables[cell].built = (IF cell \in Demanded THEN 1 ELSE 0)
  /\ \A t \in Threads :
       /\ \A cell \in Cells : self[t].got[cell] \in {Nothing, Built(cell)}
       /\ self[t].ret # Nothing =>
            self[t].ret = Engine_struct(self[t].engine, [cell \in Cells |-> Built(cell)])
       /\ (self[t].stack # <<>> /\ Top(self[t]).at = "wait") =>
            /\ Len(self[t].stack) > 1 => Top(self[t]).cell = "EXP_LOG"
            /\ tables[Top(self[t]).cell].state = "Running" =>
                 /\ tables[Top(self[t]).cell].runner # t
                 /\ Top(self[t]).cell = "EXP_LOG" =>
                      Top(self[tables["EXP_LOG"].runner]).at # "wait"

\* C16: when several threads create their first engines (Naive::new,
\* NoSimd::new) concurrently, each table is built exactly once, every caller
\* obtains the same fully built table and never a partly built one, an
\* initializer waits only for the EXP_LOG cell, never for its own cell or in a
\* cycle, and every call returns.
C16_TablesBuiltOnce == []OnceCells /\ <>AllReturned

\* all threads have returned, engines of both kinds among them, after a thread
\* was parked for EXP_LOG inside its own closure and another for SKEW
C16_Witness ==
  /\ role = "Threads"
  /\ AllReturned
  /\ \E t, u \in Threads : self[t].engine = "Naive" /\ self[u].engine = "NoSimd"
  /\ \E t \in Threads : self[t].engine = "NoSimd" /\ "EXP_LOG" \in self[t].waited
  /\ \E t \in Threads : "SKEW" \in self[t].waited
  /\ tables["LOG_WALSH"].state = "Complete"

\* ======================================================================
\* Calls that return an error: every call of a round with every argument,
\* and reset between the rounds.

ErrorNext ==
  \/ NextCall
  \/ \E cfg \in ConfigArgs, d \in DataSets :
       EncoderReset(cfg.original_count, cfg.recovery_count, cfg.shard_bytes, d)
  \/ \E cfg \in ConfigArgs, d \in DataSets :
       DecoderReset(cfg.original_count, cfg.recovery_count, cfg.shard_bytes, d)

ErrorSpec == Init /\ [][ErrorNext]_vars

\* the call returned Err(..)
IsError(ret) == ret.kind = "Err"

\* C18: in a HighRate or LowRate encoder or decoder, an add_original_shard,
\* add_recovery_shard, encode, decode or reset that returns an error leaves the
\* session as it was: the configuration, the received counts, the received set
\* and the stored shards.
C18_ErrorsChangeNothing ==
  [][(/\ role \in Roles
      /\ rate \in {"HighRate", "LowRate"}
      /\ last'.op \in {"add_original_shard", "add_recovery_shard", "encode", "decode",
                       "reset"}
      /\ IsError(last'.ret))
     => (self' = self /\ config' = config /\ phase' = phase)]_vars

\* a decode that returned NotEnoughShards in a session holding shards, in a
\* round that followed a reset
C18_Witness ==
  /\ role = "Decoder"
  /\ rate \in {"HighRate", "LowRate"}
  /\ rounds > 1
  /\ last.op = "decode"
  /\ IsError(last.ret)
  /\ last.ret.err = "NotEnoughShards"
  /\ self.work.original_received_count + self.work.recovery_received_count > 0

\* ======================================================================
\* The bookkeeping of EncoderWork and DecoderWork.

\* the set bits of `received` in [from, from + count)
ReceivedIn(work, from, count) ==
  {pos \in work.received.ones : from <= pos /\ pos < from + count}

\* C19: in every state that new, add, encode, decode, result drop and reset
\* reach, an encoder has 0 <= original_received_count <= original_count, and in
\* a decoder original_received_count is the number of set bits of `received`
\* in [original_base_pos, original_base_pos + original_count),
\* recovery_received_count the number of set bits in [recovery_base_pos,
\* recovery_base_pos + recovery_count), no bit outside the two ranges is set,
\* and the ranges are disjoint and lie below work_count.
C19_Bookkeeping ==
  /\ role = "Encoder" =>
       /\ 0 <= self.work.original_received_count
       /\ self.work.original_received_count <= self.work.original_count
  /\ role = "Decoder" =>
       LET work == self.work
           originals == ReceivedIn(work, work.original_base_pos, work.original_count)
           recoveries == ReceivedIn(work, work.recovery_base_pos, work.recovery_count)
       IN /\ work.original_received_count = Cardinality(originals)
          /\ work.recovery_received_count = Cardinality(recoveries)
          /\ work.received.ones = originals \cup recoveries
          /\ \/ work.original_base_pos + work.original_count <= work.recovery_base_pos
             \/ work.recovery_base_pos + work.recovery_count <= work.original_base_pos
          /\ work.original_base_pos + work.original_count <= work.shards.shard_count
          /\ work.recovery_base_pos + work.recovery_count <= work.shards.shard_count

\* a decoder in its second round that holds an original and a recovery shard
C19_Witness ==
  /\ role = "Decoder"
  /\ rounds > 1
  /\ self.work.original_received_count > 0
  /\ self.work.recovery_received_count > 0
  /\ self.work.recovery_base_pos + self.work.recovery_count < self.work.shards.shard_count

\* ======================================================================
\* rate/rate_high.rs, rate/rate_low.rs - the arena at the start of the IFFT
\* step of decode.

\* decode up to MULTIPLY SHARDS, of the decoder of the session
RateDecoder_decode_multiplied(session) ==
  CASE session.inner = "High" -> HighRateDecoder_decode_multiplied(session.work)
    [] session.inner = "Low" -> LowRateDecoder_decode_multiplied(session.work)

\* ----------------------------------------------------------------------
\* Decoder sessions whose arena has a gap between its two regions: a region
\* of GapCount shards ends before the next power of two, where the other
\* region or the zero padding begins.  The session comes to these counts by
\* reset, after a round with other counts that has left its bytes in the arena.

GapCount == next_power_of_two(MaxCount) + 1

GapConfigs ==
  {Config(1, GapCount, BLOCK_BYTES), Config(GapCount, 1, 2 * BLOCK_BYTES),
   Config(GapCount, GapCount, BLOCK_BYTES)}

\* a new decoder of MaxCount originals and MaxCount recovery shards: the
\* round before the reset to the counts that leave a gap
ArenaInit ==
  \E ra \in {"HighRate", "LowRate"}, d \in DataSets :
    \E cfg \in {Config(MaxCount, MaxCount, BLOCK_BYTES)} :
    \E new \in {RateDecoder_new(ra, cfg.original_count, cfg.recovery_count,
                                cfg.shard_bytes, DecoderWork_new)} :
       /\ new.ret = Ok
       /\ tables = Engine_new("Naive")
       /\ role = "Decoder"
       /\ rate = ra
       /\ self = Session(new)
       /\ fresh = Session(new)
       /\ phase = "Ready"
       /\ iter = NoIter
       /\ last = [op |-> "new", ret |-> Ok, fresh_ret |-> Ok]
       /\ given = NewGiven(d)
       /\ config = cfg
       /\ boundary = "new"
       /\ rounds = 1
       /\ previous = NoPrevious

ArenaNext ==
  \/ \E index \in 0..(GapCount - 1) :
       DecoderAddOriginalShard(index, config.shard_bytes, FALSE)
  \/ \E index \in 0..(GapCount - 1) :
       DecoderAddRecoveryShard(index, config.shard_bytes, FALSE)
  \/ DecoderDecode
  \/ \E d \in DataSets : DecoderResultDrop(d)
  \/ \E cfg \in GapConfigs, d \in DataSets :
       DecoderReset(cfg.original_count, cfg.recovery_count, cfg.shard_bytes, d)

ArenaSpec == ArenaInit /\ [][ArenaNext]_vars

\* the arena positions that lie in neither region
OutsideRegions(work) ==
  {pos \in 0..(work.shards.shard_count - 1) :
     /\ ~(work.original_base_pos <= pos /\ pos < work.original_base_pos + work.original_count)
     /\ ~(work.recovery_base_pos <= pos /\ pos < work.recovery_base_pos + work.recovery_count)}

\* the step is a decode of a HighRate or LowRate decoder that has to restore
\* an original, and so reaches the IFFT step
DecodeRunsIfft ==
  /\ role = "Decoder"
  /\ phase = "Ready"
  /\ last'.op = "decode"
  /\ self.inner \in {"High", "Low"}
  /\ DecoderWork_decode_begin(self.work) = [kind |-> "Ok", stuff |-> "Some"]

\* what the claim has at arena position pos: the shard accepted in this round
\* for the position times its erasure-locator coefficient, or zero bytes
MultipliedOrZero(work, erasures, pos) ==
  IF pos \in {work.original_base_pos + index : index \in given.originals}
  THEN Engine_mul(tables.engine,
                  OriginalShard(given.d, pos - work.original_base_pos, work.shard_bytes),
                  erasures[pos])
  ELSE IF pos \in {work.recovery_base_pos + index : index \in given.recoveries}
  THEN Engine_mul(tables.engine,
                  RecoveryShard(rate, config, given.d, pos - work.recovery_base_pos,
                                work.shard_bytes),
                  erasures[pos])
  ELSE Zeroes(work.shard_bytes)

\* C20: when the IFFT step of a HighRate or LowRate decode starts, every arena
\* position below work_count holds the shard accepted in the current round for
\* that position multiplied by its erasure-locator coefficient, or zero bytes
\* where no shard was supplied, in the gap between the two regions and from the
\* end of the second region on; in every round, whatever earlier rounds and
\* resets left in the arena.
C20_ArenaAtIfft ==
  [][DecodeRunsIfft =>
       \E at \in {RateDecoder_decode_multiplied(self)} :
          /\ DOMAIN at.data = 0..(self.work.shards.shard_count - 1)
          /\ \A pos \in DOMAIN at.data :
               at.data[pos] = MultipliedOrZero(self.work, at.erasures, pos)]_vars

\* a decode of the second round has restored originals in an arena that has
\* a gap between its regions and positions beyond both
C20_Witness ==
  /\ role = "Decoder"
  /\ rounds > 1
  /\ self.inner \in {"High", "Low"}
  /\ last.op = "decode"
  /\ last.ret = Ok
  /\ given.originals # 0..(config.original_count - 1)
  /\ given.recoveries # {}
  /\ \E gap, beyond \in OutsideRegions(self.work) :
        /\ gap < Max(self.work.original_base_pos, self.work.recovery_base_pos)
        /\ beyond > Max(self.work.original_base_pos, self.work.recovery_base_pos)

\* ======================================================================
\* The table and arena indexes of encode and decode.  The indexes a pipeline
\* uses depend on the counts and on the engine, never on the bytes: the
\* operators below walk the loops of the transforms and collect every
\* index of `skew` and of the arena `data` that the loops use.

SkewAt(index) == [table |-> "skew", index |-> index]
ShardAt(index) == [table |-> "arena", index |-> index]

\* the values of r in `while r < truncated_size { ...; r += step }`
LoopR(truncated_size, step) == {r \in 0..(truncated_size - 1) : r % step = 0}

\* shards start..end-1 (zero, fill, mul over a range of the arena)
RangeAccesses(start, end) == {ShardAt(p) : p \in start..(end - 1)}

\* xor_within(data, x, y, count) and copy_within(src, dest, count)
xor_within_accesses(x, y, count) ==
  RangeAccesses(x, x + count) \cup RangeAccesses(y, y + count)

\* formal_derivative: `for i in 1..data.len()`
formal_derivative_accesses(len) ==
  UNION {xor_within_accesses(i - ((BitXor(i, i - 1) + 1) \div 2), i,
                             (BitXor(i, i - 1) + 1) \div 2) : i \in 1..(len - 1)}

\* Naive::fft and Naive::ifft, one layer: `while r < truncated_size`
Naive_layer_accesses(pos, dist, truncated_size, skew_delta) ==
  UNION {{SkewAt(r + dist + skew_delta - 1)}
           \cup UNION {{ShardAt(pos + i), ShardAt(pos + i + dist)} : i \in r..(r + dist - 1)} :
         r \in LoopR(truncated_size, dist * 2)}

\* Naive::fft: `while dist > 0`
RECURSIVE Naive_fft_accesses_dist(_, _, _, _)
Naive_fft_accesses_dist(pos, dist, truncated_size, skew_delta) ==
  IF dist > 0
  THEN Naive_layer_accesses(pos, dist, truncated_size, skew_delta)
         \cup Naive_fft_accesses_dist(pos, dist \div 2, truncated_size, skew_delta)
  ELSE {}

Naive_fft_accesses(pos, size, truncated_size, skew_delta) ==
  Naive_fft_accesses_dist(pos, size \div 2, truncated_size, skew_delta)

\* Naive::ifft: `while dist < size`
RECURSIVE Naive_ifft_accesses_dist(_, _, _, _, _)
Naive_ifft_accesses_dist(pos, dist, size, truncated_size, skew_delta) ==
  IF dist < size
  THEN Naive_layer_accesses(pos, dist, truncated_size, skew_delta)
         \cup Naive_ifft_accesses_dist(pos, dist * 2, size, truncated_size, skew_delta)
  ELSE {}

Naive_ifft_accesses(pos, size, truncated_size, skew_delta) ==
  Naive_ifft_accesses_dist(pos, 1, size, truncated_size, skew_delta)

\* NoSimd, TWO LAYERS AT TIME: `while r < truncated_size`, with dist4_mut
NoSimd_layers_accesses(pos, dist, dist4, truncated_size, skew_delta) ==
  UNION {{SkewAt(r + dist + skew_delta - 1), SkewAt((r + dist + skew_delta - 1) + dist),
          SkewAt((r + dist + skew_delta - 1) + (dist * 2))}
           \cup UNION {{ShardAt(pos + i + (dist * j)) : j \in 0..3} : i \in r..(r + dist - 1)} :
         r \in LoopR(truncated_size, dist4)}

\* NoSimd::fft_private: `while dist != 0`, then FINAL ODD LAYER
RECURSIVE NoSimd_fft_accesses_dist(_, _, _, _, _)
NoSimd_fft_accesses_dist(pos, dist, dist4, truncated_size, skew_delta) ==
  IF dist # 0
  THEN NoSimd_layers_accesses(pos, dist, dist4, truncated_size, skew_delta)
         \cup NoSimd_fft_accesses_dist(pos, dist \div 4, dist, truncated_size, skew_delta)
  ELSE IF dist4 = 2
  THEN UNION {{SkewAt(r + skew_delta), ShardAt(pos + r), ShardAt(pos + r + 1)} :
              r \in LoopR(truncated_size, 2)}
  ELSE {}

NoSimd_fft_accesses(pos, size, truncated_size, skew_delta) ==
  NoSimd_fft_accesses_dist(pos, size \div 4, size, truncated_size, skew_delta)

\* NoSimd::ifft_private: `while dist4 <= size`, then FINAL ODD LAYER
RECURSIVE NoSimd_ifft_accesses_dist(_, _, _, _, _, _)
NoSimd_ifft_accesses_dist(pos, dist, dist4, size, truncated_size, skew_delta) ==
  IF dist4 <= size
  THEN NoSimd_layers_accesses(pos, dist, dist4, truncated_size, skew_delta)
         \cup NoSimd_ifft_accesses_dist(pos, dist4, dist4 * 4, size, truncated_size, skew_delta)
  ELSE IF dist < size
  THEN {SkewAt(dist + skew_delta - 1)} \cup xor_within_accesses(pos + dist, pos, dist)
  ELSE {}

NoSimd_ifft_accesses(pos, size, truncated_size, skew_delta) ==
  NoSimd_ifft_accesses_dist(pos, 1, 4, size, truncated_size, skew_delta)

Engine_fft_accesses(E, pos, size, truncated_size, skew_delta) ==
  IF E = "Naive"
  THEN Naive_fft_accesses(pos, size, truncated_size, skew_delta)
  ELSE NoSimd_fft_accesses(pos, size, truncated_size, skew_delta)

Engine_ifft_accesses(E, pos, size, truncated_size, skew_delta) ==
  IF E = "Naive"
  THEN Naive_ifft_accesses(pos, size, truncated_size, skew_delta)
  ELSE NoSimd_ifft_accesses(pos, size, truncated_size, skew_delta)

\* fft_skew_end and ifft_skew_end with skew_delta one past the end of the chunk
fft_skew_end_accesses_past(E, pos, size, truncated_size) ==
  Engine_fft_accesses(E, pos, size, truncated_size, pos + size + 1)

fft_skew_end_accesses(E, pos, size, truncated_size) ==
  Engine_fft_accesses(E, pos, size, truncated_size, pos + size)

ifft_skew_end_accesses(E, pos, size, truncated_size) ==
  Engine_ifft_accesses(E, pos, size, truncated_size, pos + size)

\* the values of chunk_start in `while chunk_start + chunk_size <= count`,
\* from chunk_start = first
FullChunks(first, chunk_size, count) ==
  {c \in first..count : (c - first) % chunk_size = 0 /\ c + chunk_size <= count}

\* HighRateEncoder::encode
HighRateEncoder_encode_accesses(E, original_count, recovery_count, work_count) ==
  LET chunk_size == next_power_of_two(recovery_count)
      first_count == Min(original_count, chunk_size)
      last_count == original_count % chunk_size
      last_start == original_count - last_count
  IN RangeAccesses(first_count, chunk_size)
       \cup ifft_skew_end_accesses(E, 0, chunk_size, first_count)
       \cup (IF original_count > chunk_size
             THEN UNION {ifft_skew_end_accesses(E, chunk_start, chunk_size, chunk_size)
                           \cup xor_within_accesses(0, chunk_start, chunk_size) :
                         chunk_start \in FullChunks(chunk_size, chunk_size, original_count)}
                    \cup (IF last_count > 0
                          THEN RangeAccesses(last_start + last_count, work_count)
                                 \cup ifft_skew_end_accesses(E, last_start, chunk_size, last_count)
                                 \cup xor_within_accesses(0, last_start, chunk_size)
                          ELSE {})
             ELSE {})
       \cup Engine_fft_accesses(E, 0, chunk_size, recovery_count, 0)

\* LowRateEncoder::encode
LowRateEncoder_encode_accesses(E, original_count, recovery_count, work_count) ==
  LET chunk_size == next_power_of_two(original_count)
      last_count == recovery_count % chunk_size
      last_start == recovery_count - last_count
  IN RangeAccesses(original_count, chunk_size)
       \cup Engine_ifft_accesses(E, 0, chunk_size, original_count, 0)
       \cup UNION {xor_within_accesses(0, chunk_start, chunk_size) :
                   chunk_start \in {c \in chunk_size..(recovery_count - 1) : c % chunk_size = 0}}
       \cup UNION {fft_skew_end_accesses(E, chunk_start, chunk_size, chunk_size) :
                   chunk_start \in FullChunks(0, chunk_size, recovery_count)}
       \cup (IF last_count > 0
             THEN fft_skew_end_accesses(E, last_start, chunk_size, last_count)
             ELSE {})

\* IFFT / FORMAL DERIVATIVE / FFT of the decoders
decode_transform_accesses(E, work_count, truncated_size) ==
  Engine_ifft_accesses(E, 0, work_count, truncated_size, 0)
    \cup formal_derivative_accesses(work_count)
    \cup Engine_fft_accesses(E, 0, work_count, truncated_size, 0)

\* HighRateDecoder::decode: MULTIPLY SHARDS, the transforms, REVEAL ERASURES
HighRateDecoder_decode_accesses(E, original_count, recovery_count, work_count) ==
  LET chunk_size == next_power_of_two(recovery_count)
      original_end == chunk_size + original_count
  IN RangeAccesses(0, recovery_count)
       \cup RangeAccesses(recovery_count, chunk_size)
       \cup RangeAccesses(chunk_size, original_end)
       \cup RangeAccesses(original_end, work_count)
       \cup decode_transform_accesses(E, work_count, original_end)

\* LowRateDecoder::decode: MULTIPLY SHARDS, the transforms, REVEAL ERASURES
LowRateDecoder_decode_accesses(E, original_count, recovery_count, work_count) ==
  LET chunk_size == next_power_of_two(original_count)
      recovery_end == chunk_size + recovery_count
  IN RangeAccesses(0, original_count)
       \cup RangeAccesses(original_count, chunk_size)
       \cup RangeAccesses(chunk_size, recovery_end)
       \cup RangeAccesses(recovery_end, work_count)
       \cup decode_transform_accesses(E, work_count, recovery_end)

\* shards.shard_count after new: the work_count of the pipeline
Rate_work_count(ro, ra, original_count, recovery_count) ==
  CASE ro = "Encoder" /\ ra = "HighRate" ->
         HighRateEncoder_work_count(original_count, recovery_count)
    [] ro = "Encoder" /\ ra = "LowRate" ->
         LowRateEncoder_work_count(original_count, recovery_count)
    [] ro = "Decoder" /\ ra = "HighRate" ->
         HighRateDecoder_work_count(original_count, recovery_count)
    [] ro = "Decoder" /\ ra = "LowRate" ->
         LowRateDecoder_work_count(original_count, recovery_count)

\* the indexes of one encode or decode of the pipeline
Rate_accesses(ro, ra, E, original_count, recovery_count) ==
  LET work_count == Rate_work_count(ro, ra, original_count, recovery_count)
  IN CASE ro = "Encoder" /\ ra = "HighRate" ->
            HighRateEncoder_encode_accesses(E, original_count, recovery_count, work_count)
       [] ro = "Encoder" /\ ra = "LowRate" ->
            LowRateEncoder_encode_accesses(E, original_count, recovery_count, work_count)
       [] ro = "Decoder" /\ ra = "HighRate" ->
            HighRateDecoder_decode_accesses(E, original_count, recovery_count, work_count)
       [] ro = "Decoder" /\ ra = "LowRate" ->
            LowRateDecoder_decode_accesses(E, original_count, recovery_count, work_count)

\* A session of every pair of counts that its rate supports, on either
\* engine, before its encode or decode
IndexInit ==
  \E ro \in Roles, ra \in {"HighRate", "LowRate"}, E \in Engines,
     original_count \in 1..(GF_ORDER - 1), recovery_count \in 1..(GF_ORDER - 1) :
    /\ Rate_supports(ra, original_count, recovery_count)
    /\ tables = Engine_new(E)
    /\ role = ro
    /\ rate = ra
    /\ self = [inner |-> "None", work |-> Work_new(ro)]
    /\ phase = "Ready"
    /\ iter = NoIter
    /\ last = [op |-> "new", ret |-> Ok, fresh_ret |-> Ok]
    /\ given = NewGiven(0)
    /\ config = Config(original_count, recovery_count, BLOCK_BYTES)
    /\ boundary = "new"
    /\ rounds = 1
    /\ previous = NoPrevious
    /\ fresh = [inner |-> "None", work |-> Work_new(ro)]

\* encode or decode runs over the arena of work_count shards
IndexedRun ==
  /\ phase = "Ready"
  /\ phase' = "Result"
  /\ last' = [op |-> IF role = "Encoder" THEN "encode" ELSE "decode",
              work_count |-> Rate_work_count(role, rate, config.original_count,
                                             config.recovery_count),
              accesses |-> Rate_accesses(role, rate, tables.engine, config.original_count,
                                         config.recovery_count),
              ret |-> Ok, fresh_ret |-> Ok]
  /\ UNCHANGED <<tables, role, rate, self, iter, given, config, boundary, rounds, previous,
               fresh>>

IndexNext == IndexedRun

IndexSpec == IndexInit /\ [][IndexNext]_vars

\* the run has its accesses recorded
Indexed == phase = "Result" /\ last.op \in {"encode", "decode"} /\ "accesses" \in DOMAIN last

\* C21: for every (k, m) that the rate in use supports, no step of encode or
\* decode indexes outside a table or the arena: every index of skew is at
\* most GF_MODULUS - 1 (also in fft_skew_end and ifft_skew_end on the last
\* chunk, where skew_delta = pos + size), and every index of the arena is
\* below work_count, the ranges [i - width, i) and [i, i + width) of
\* formal_derivative included.
C21_IndexesInside ==
  Indexed =>
    \A access \in last.accesses :
      /\ access.index >= 0
      /\ access.table = "skew" => access.index \in DOMAIN tables.skew
      /\ access.table = "arena" => access.index < last.work_count

\* an encode of several chunks has looked up the last entry of skew in
\* fft_skew_end or ifft_skew_end, and a decode has used the last shard of the
\* arena
C21_Witness ==
  /\ Indexed
  /\ SkewAt(GF_MODULUS - 1) \in last.accesses
  /\ ShardAt(last.work_count - 1) \in last.accesses
  /\ role = "Encoder"
  /\ Min(config.original_count, config.recovery_count) > 1
  /\ tables.engine = "NoSimd"


\* ======================================================================
\* rate/rate_default.rs - the pipeline that DefaultRate selects, for every
\* pair of counts a caller can pass

\* Rate::supports of the three rates, called with the caller's counts
RateSupports ==
  /\ role = "Caller"
  /\ phase = "Calling"
  /\ phase' = "Returned"
  /\ last' = [op |-> "supports",
              default |-> DefaultRate_supports(config.original_count, config.recovery_count),
              high |-> HighRate_supports(config.original_count, config.recovery_count),
              low |-> LowRate_supports(config.original_count, config.recovery_count),
              ret |-> Ok, fresh_ret |-> Ok]
  /\ UNCHANGED <<tables, role, rate, self, iter, given, config, boundary, rounds,
               previous, fresh>>

\* DefaultRateEncoder::new and DefaultRateDecoder::new with the caller's
\* counts, shards of one block and no work object
DefaultRateNew(ro) ==
  /\ role = "Caller"
  /\ phase = "Calling"
  /\ \E new \in {Rate_new(ro, "DefaultRate", config.original_count, config.recovery_count,
                          BLOCK_BYTES, Work_new(ro))} :
       /\ self' = Session(new)
       /\ last' = [op |-> "new", role |-> ro, ret |-> new.ret, fresh_ret |-> Ok]
  /\ phase' = "Returned"
  /\ UNCHANGED <<tables, role, rate, iter, given, config, boundary, rounds, previous, fresh>>

SupportNext ==
  \/ \E overflow_checks \in BOOLEAN : UseHighRate(overflow_checks)
  \/ RateSupports
  \/ \E ro \in Roles : DefaultRateNew(ro)

SupportSpec == ArgInit /\ [][SupportNext]_vars

\* C22: DefaultRate never selects a pipeline that rejects the counts.  When
\* use_high_rate(k, m) returns Ok(true) HighRate::supports(k, m) holds, when
\* it returns Ok(false) LowRate::supports(k, m) holds, DefaultRate::supports
\* (k, m) is true exactly when HighRate::supports(k, m) or LowRate::supports
\* (k, m) is, and new of the selected pipeline accepts the counts.
C22_SelectedPipelineSupports ==
  /\ (last.op = "use_high_rate" /\ last.ret.kind = "Ok") =>
       IF last.ret.high
       THEN HighRate_supports(config.original_count, config.recovery_count)
       ELSE LowRate_supports(config.original_count, config.recovery_count)
  /\ last.op = "supports" => (last.default <=> (last.high \/ last.low))
  /\ last.op = "new" =>
       /\ DefaultRate_supports(config.original_count, config.recovery_count) <=> last.ret = Ok
       /\ last.ret = Ok => self.inner \in {"High", "Low"}

\* DefaultRate has selected the high rate "on purpose" for counts that fill
\* the field, and a new session of these counts exists
C22_Witness ==
  /\ last.op = "new"
  /\ last.ret = Ok
  /\ self.inner = "High"
  /\ config.original_count <= config.recovery_count
  /\ config.original_count > 1
  /\ next_power_of_two(config.recovery_count) + config.original_count = GF_ORDER


\* ======================================================================
\* rate/rate_high.rs, rate/rate_low.rs - the two encoders on counts that
\* both rates take with the same chunk size

\* the pairs (original_count, recovery_count) with the same next power of two
EitherCounts ==
  {km \in (1..(GF_ORDER - 1)) \X (1..(GF_ORDER - 1)) :
     /\ next_power_of_two(km[1]) = next_power_of_two(km[2])
     /\ HighRate_supports(km[1], km[2])
     /\ LowRate_supports(km[1], km[2])}

\* shards with a single bit set
UnitShards ==
  {[ZeroShard EXCEPT ![j] = Pow2(bit)] : j \in 0..(BLOCK_BYTES - 1), bit \in 0..(BYTE_BITS - 1)}

\* the number that stands for the originals with a single bit set
UnitData == MaxData + 1

\* The original the caller adds next: that of its data set, or for UnitData a
\* zero shard or, once among the originals, a shard with a single bit set
EitherOriginals(g) ==
  IF g.d \in DataSets
  THEN {Payload(g.d, Len(g.shards), BLOCK_BYTES)}
  ELSE IF \A i \in 1..Len(g.shards) : g.shards[i] = ZeroShard
  THEN {ZeroShard} \cup UnitShards
  ELSE {ZeroShard}

\* A HighRateEncoder (self) and a LowRateEncoder (fresh) of the same counts
EitherInit ==
  \E km \in EitherCounts, E \in Engines, d \in DataSets \cup {UnitData} :
    /\ tables = Engine_new(E)
    /\ role = "Encoder"
    /\ rate = "HighRate"
    /\ self = Session(HighRateEncoder_new(km[1], km[2], BLOCK_BYTES, EncoderWork_new))
    /\ phase = "Ready"
    /\ iter = NoIter
    /\ last = [op |-> "new", ret |-> Ok, fresh_ret |-> Ok]
    /\ given = NewGiven(d)
    /\ config = Config(km[1], km[2], BLOCK_BYTES)
    /\ boundary = "new"
    /\ rounds = 1
    /\ previous = NoPrevious
    /\ fresh = Session(LowRateEncoder_new(km[1], km[2], BLOCK_BYTES, EncoderWork_new))

\* add_original_shard on both encoders
EitherAddOriginalShard(shard) ==
  /\ role = "Encoder"
  /\ phase = "Ready"
  /\ shard \in EitherOriginals(given)
  /\ Len(given.shards) < config.original_count
  /\ \E r \in {RateEncoder_add_original_shard(self, shard)},
        f \in {RateEncoder_add_original_shard(fresh, shard)} :
        /\ self' = [self EXCEPT !.work = r.work]
        /\ fresh' = [fresh EXCEPT !.work = f.work]
        /\ phase' = AfterCall(r.ret, "Ready")
        /\ given' = IF r.ret = Ok THEN [given EXCEPT !.shards = Append(@, shard)] ELSE given
        /\ last' = [op |-> "add_original_shard", shard |-> shard, pre |-> given,
                    ret |-> r.ret, fresh_ret |-> f.ret]
  /\ UNCHANGED <<tables, role, rate, iter, config, boundary, rounds, previous>>

EitherNext ==
  \/ \E shard \in Shards : EitherAddOriginalShard(shard)
  \/ EncoderEncode

EitherSpec == EitherInit /\ [][EitherNext]_vars

\* C23: for every (k, m) with next_power_of_two(k) = next_power_of_two(m) and
\* every k originals, HighRateEncoder and LowRateEncoder produce
\* byte-identical recovery shards.
C23_EitherRateSameRecovery ==
  (last.op = "encode" /\ last.ret = Ok) =>
    /\ last.fresh_ret = Ok
    /\ self.inner = "High"
    /\ fresh.inner = "Low"
    /\ RecoveryOutputs(self.work) = RecoveryOutputs(fresh.work)

\* the two encoders have encoded originals that are not all zero, with a
\* chunk that neither the originals nor the recovery shards fill
C23_Witness ==
  /\ last.op = "encode"
  /\ last.ret = Ok
  /\ tables.engine = "NoSimd"
  /\ config.original_count > config.recovery_count
  /\ config.original_count < next_power_of_two(config.original_count)
  /\ config.recovery_count > 2
  /\ \E index \in DOMAIN RecoveryOutputs(self.work) :
       RecoveryOutputs(self.work)[index] # ZeroShard


\* ======================================================================
\* Truncated transforms: fft and ifft of one chunk, run by each engine
\* with the caller's truncated_size and with truncated_size = size
\* (engine.rs, engine_naive.rs, engine_nosimd.rs)

\* A caller about to run fft or ifft on one chunk
TruncInit ==
  \E input \in OpInputs(MaxSize) :
    /\ input.op \in {"fft", "ifft"}
    /\ tables = Engine_new("NoSimd")
    /\ role = "Caller"
    /\ rate = "DefaultRate"
    /\ self = [inner |-> "None", work |-> DecoderWork_new]
    /\ phase = "Calling"
    /\ iter = NoIter
    /\ last = [op |-> "none", ret |-> Ok, fresh_ret |-> Ok]
    /\ given = input
    /\ config = Config(0, 0, BLOCK_BYTES)
    /\ boundary = "new"
    /\ rounds = 1
    /\ previous = NoPrevious
    /\ fresh = [inner |-> "None", work |-> DecoderWork_new]

\* the transform has run in each engine: `out` is what the call with the
\* given truncated_size left in the buffer, `full` what the call with
\* truncated_size = size left
Truncated(op, outputs, untruncated) ==
  /\ role = "Caller"
  /\ phase = "Calling"
  /\ given.op = op
  /\ phase' = "Returned"
  /\ last' = [op |-> op, ret |-> Ok, fresh_ret |-> Ok, out |-> outputs, full |-> untruncated]
  /\ UNCHANGED <<tables, role, rate, self, iter, given, config, boundary, rounds,
               previous, fresh>>

TruncFft ==
  Truncated("fft",
            [E \in Engines |->
               Engine_fft(E, given.data, given.pos, given.size, given.truncated_size,
                          given.skew_delta)],
            [E \in Engines |->
               Engine_fft(E, given.data, given.pos, given.size, given.size, given.skew_delta)])

TruncIfft ==
  Truncated("ifft",
            [E \in Engines |->
               Engine_ifft(E, given.data, given.pos, given.size, given.truncated_size,
                           given.skew_delta)],
            [E \in Engines |->
               Engine_ifft(E, given.data, given.pos, given.size, given.size, given.skew_delta)])

TruncNext ==
  \/ TruncFft
  \/ TruncIfft

TruncSpec == TruncInit /\ [][TruncNext]_vars

\* the positions of the chunk the transform works on
Chunk == given.pos..(given.pos + given.size - 1)

\* the shards of the chunk from truncated_size on
ChunkTail == (given.pos + given.truncated_size)..(given.pos + given.size - 1)

TransformReturned(op) == role = "Caller" /\ phase = "Returned" /\ last.op = op

\* C24: for every power-of-two size, every 1 <= truncated_size <= size,
\* every pos and skew_delta, and every buffer that is all zero at
\* [pos + truncated_size, pos + size), ifft with truncated_size leaves at
\* every position of [pos, pos + size) the bytes the untruncated ifft
\* leaves, in the Naive and in the NoSimd engine.
C24_TruncatedIfftOfZeroPadded ==
  (/\ TransformReturned("ifft")
   /\ given.truncated_size >= 1
   /\ \A p \in ChunkTail : given.data[p] = ZeroShard) =>
    \A E \in Engines : \A p \in Chunk : last.out[E][p] = last.full[E][p]

\* ifft of eight shards of which the first three are not zero, truncated
\* to three: every shard of the chunk is changed, and is the untruncated
\* result
C24_Witness ==
  /\ TransformReturned("ifft")
  /\ given.size = MaxSize
  /\ given.truncated_size = 3
  /\ \A p \in ChunkTail : given.data[p] = ZeroShard
  /\ \A p \in 0..2 : given.data[p] # ZeroShard
  /\ \A E \in Engines : /\ last.out[E] = last.full[E]
                        /\ \A p \in Chunk : last.out[E][p] # given.data[p]


\* the first truncated_size positions of the chunk
ChunkHead == given.pos..(given.pos + given.truncated_size - 1)

\* C25: for every power-of-two size, every 1 <= truncated_size <= size,
\* every pos, skew_delta and buffer content, the shards at
\* [pos, pos + truncated_size) after fft with truncated_size are the shards
\* the untruncated fft leaves there, in the Naive and in the NoSimd engine.
C25_TruncatedFftHead ==
  (TransformReturned("fft") /\ given.truncated_size >= 1) =>
    \A E \in Engines : \A p \in ChunkHead : last.out[E][p] = last.full[E][p]

\* fft of eight shards none of which is zero, truncated to three: the
\* first three shards are changed and are the untruncated result, while
\* the rest of the chunk is not
C25_Witness ==
  /\ TransformReturned("fft")
  /\ given.size = MaxSize
  /\ given.truncated_size = 3
  /\ \A p \in Chunk : given.data[p] # ZeroShard
  /\ \A E \in Engines : /\ last.out[E] # last.full[E]
                        /\ \A p \in ChunkHead : /\ last.out[E][p] = last.full[E][p]
                                                /\ last.out[E][p] # given.data[p]


\* C26: when the shards at [pos + truncated_size, pos + size) are all zero
\* before fft, they are all zero after it.
C26_ZeroTailStaysZero ==
  (/\ TransformReturned("fft")
   /\ \A p \in ChunkTail : given.data[p] = ZeroShard) =>
    \A E \in Engines : \A p \in ChunkTail : last.out[E][p] = ZeroShard


\* ======================================================================
\* fft and ifft in sequence: one chunk transformed and transformed back
\* with the same pos, size and skew_delta and truncated_size = size, by
\* each engine, over a Skew table of any content (engine_naive.rs,
\* engine_nosimd.rs)

\* Contents of the Skew table: the table initialize_skew builds, the table
\* of GF_MODULUS only (every butterfly the plain XOR), and for every start
\* the table that counts up from it
SkewTables ==
  {Skew, [i \in 0..(GF_MODULUS - 1) |-> GF_MODULUS]}
    \cup {[i \in 0..(GF_MODULUS - 1) |-> (i + c) % GF_ORDER] : c \in 0..GF_MODULUS}

\* the chunks a transform is run on: pos, size, skew_delta and the buffer
InverseInputs(max_size) ==
  UNION {UNION {{[data |-> data, pos |-> pos, size |-> size, skew_delta |-> sd] :
                   sd \in {0, pos + size}, data \in Buffers(pos + size)} :
                  pos \in {0, size} \cap (0..(max_size - size))} :
           size \in Sizes \cap (1..max_size)}

\* A caller about to transform one chunk there and back
InverseInit ==
  \E input \in InverseInputs(MaxSize), skew \in SkewTables :
    /\ tables = [Engine_new("NoSimd") EXCEPT !.skew = skew]
    /\ role = "Caller"
    /\ rate = "DefaultRate"
    /\ self = [inner |-> "None", work |-> DecoderWork_new]
    /\ phase = "Calling"
    /\ iter = NoIter
    /\ last = [op |-> "none", ret |-> Ok, fresh_ret |-> Ok]
    /\ given = input
    /\ config = Config(0, 0, BLOCK_BYTES)
    /\ boundary = "new"
    /\ rounds = 1
    /\ previous = NoPrevious
    /\ fresh = [inner |-> "None", work |-> DecoderWork_new]

\* the two transforms have run in each engine: `mid` is the buffer after
\* the first, `out` the buffer after the second
Inverted(op, middles, outputs) ==
  /\ role = "Caller"
  /\ phase = "Calling"
  /\ phase' = "Returned"
  /\ last' = [op |-> op, ret |-> Ok, fresh_ret |-> Ok, mid |-> middles, out |-> outputs]
  /\ UNCHANGED <<tables, role, rate, self, iter, given, config, boundary, rounds,
               previous, fresh>>

FftOf(E, data) ==
  Engine_fft(E, data, given.pos, given.size, given.size, given.skew_delta)

IfftOf(E, data) ==
  Engine_ifft(E, data, given.pos, given.size, given.size, given.skew_delta)

FftThenIfft ==
  Inverted("fft_ifft", [E \in Engines |-> FftOf(E, given.data)],
           [E \in Engines |-> IfftOf(E, FftOf(E, given.data))])

IfftThenFft ==
  Inverted("ifft_fft", [E \in Engines |-> IfftOf(E, given.data)],
           [E \in Engines |-> FftOf(E, IfftOf(E, given.data))])

InverseNext ==
  \/ FftThenIfft
  \/ IfftThenFft

InverseSpec == InverseInit /\ [][InverseNext]_vars

\* C27: for every power-of-two size, every pos, skew_delta and buffer
\* content, and every content of the Skew table, fft followed by ifft and
\* ifft followed by fft, both with truncated_size = size, leave the buffer
\* as it was, byte for byte, in the Naive and in the NoSimd engine.
C27_IfftInvertsFft ==
  (role = "Caller" /\ phase = "Returned" /\ last.op \in {"fft_ifft", "ifft_fft"}) =>
    \A E \in Engines : last.out[E] = given.data

\* fft of eight shards over the table initialize_skew builds changed every
\* shard of the chunk, and ifft changed every one back
C27_Witness ==
  /\ role = "Caller"
  /\ phase = "Returned"
  /\ last.op = "fft_ifft"
  /\ tables.skew = Skew
  /\ given.size = MaxSize
  /\ \A E \in Engines : /\ \A p \in Chunk : last.mid[E][p] # given.data[p]
                        /\ last.out[E] = given.data


\* ======================================================================
\* formal_derivative, step by step (engine.rs)

OperationReturned(op) == role = "Caller" /\ phase = "Returned" /\ last.op = op

\* width of step i: the lowest set bit of i
StepWidth(i) == (BitXor(i, i - 1) + 1) \div 2

ShardXor(a, b) == [j \in DOMAIN a |-> XorTable[a[j]][b[j]]]

\* steps i..len-1 in increasing order, each XORing shard i - width into
\* shard i
RECURSIVE ShardIntoShard(_, _, _)
ShardIntoShard(data, i, len) ==
  IF i < len /\ Evaluated(data)
  THEN ShardIntoShard(Table([data EXCEPT ![i] = ShardXor(data[i], data[i - StepWidth(i)])]),
                      i + 1, len)
  ELSE data

\* steps i..len-1 in increasing order, each XORing the shards at
\* [i, i + width) into the shards at [i - width, i)
RECURSIVE RangeIntoRange(_, _, _)
RangeIntoRange(data, i, len) ==
  IF i < len /\ Evaluated(data)
  THEN RangeIntoRange(Table([p \in DOMAIN data |->
                               IF p \in (i - StepWidth(i))..(i - 1)
                               THEN ShardXor(data[p], data[p + StepWidth(i)])
                               ELSE data[p]]),
                      i + 1, len)
  ELSE data

\* C28 as claimed: formal_derivative XORs, for each index i >= 1 in
\* increasing order, shard i - width into shard i, where
\* width = ((i XOR (i - 1)) + 1) / 2.
C28_ShardIntoShard ==
  OperationReturned("formal_derivative") =>
    \A E \in Engines : last.out[E] = ShardIntoShard(given.data, 1, Len2(given.data))

\* C28, amended: formal_derivative XORs, for each index i >= 1 in
\* increasing order, the width shards at [i, i + width) into the width
\* shards at [i - width, i), shard p + width into shard p, where
\* width = ((i XOR (i - 1)) + 1) / 2; the shards from i on are still the
\* input's when step i reads them.
C28_RangeIntoRange ==
  OperationReturned("formal_derivative") =>
    \A E \in Engines :
      /\ last.out[E] = RangeIntoRange(given.data, 1, Len2(given.data))
      /\ last.out[E][Len2(given.data) - 1] = given.data[Len2(given.data) - 1]

\* formal_derivative of eight shards none of which is zero: step 4 XORed
\* the four shards at [4, 8) into the four at [0, 4), and the last shard
\* is the input's
C28_Witness ==
  /\ OperationReturned("formal_derivative")
  /\ Len2(given.data) = MaxSize
  /\ \A p \in DOMAIN given.data : given.data[p] # ZeroShard
  /\ \A E \in Engines : /\ last.out[E][0] # given.data[0]
                        /\ last.out[E][MaxSize - 1] = given.data[MaxSize - 1]
                        /\ last.out[E] # ShardIntoShard(given.data, 1, MaxSize)


\* ======================================================================
\* The Log table an engine reads (tables.rs, initialize_exp_log)

\* C29 as claimed: in the tables built by initialize_exp_log, Log[0] = 0.
C29_LogOfZeroIsZero == tables.log[0] = 0

\* C29, amended: in the tables built by initialize_exp_log, Log[0] =
\* GF_MODULUS, the value `exp[0] = GF_MODULUS` that the substitution
\* log[i] = exp[log[i]] stores over the `log[0] = 0` of the basis change;
\* every other element has a logarithm below GF_MODULUS, of which Exp is
\* the inverse, and Exp[GF_MODULUS] = Exp[0].
C29_LogOfZeroIsModulus ==
  /\ tables.log[0] = GF_MODULUS
  /\ \A x \in 1..(GF_ORDER - 1) : /\ tables.log[x] < GF_MODULUS
                                  /\ tables.exp[tables.log[x]] = x
  /\ tables.exp[GF_MODULUS] = tables.exp[0]

\* the second engine of the caller has been created, and its tables are
\* the ones initialize_exp_log built
C29_Witness ==
  /\ role = "Caller"
  /\ phase = "Calling"
  /\ DOMAIN last.out # {}
  /\ tables.engine \notin DOMAIN last.out
  /\ tables.log = initialize_exp_log.log
  /\ tables.log[0] = GF_MODULUS


\* ======================================================================
\* add_mod and sub_mod on every pair of field elements (engine.rs)

\* A caller about to add or subtract two logarithms
ModInit ==
  \E x \in 0..(GF_ORDER - 1), y \in 0..(GF_ORDER - 1) :
    /\ tables = Engine_new("Naive")
    /\ role = "Caller"
    /\ rate = "DefaultRate"
    /\ self = [inner |-> "None", work |-> DecoderWork_new]
    /\ phase = "Calling"
    /\ iter = NoIter
    /\ last = [op |-> "none", ret |-> Ok, fresh_ret |-> Ok]
    /\ given = [x |-> x, y |-> y]
    /\ config = Config(0, 0, BLOCK_BYTES)
    /\ boundary = "new"
    /\ rounds = 1
    /\ previous = NoPrevious
    /\ fresh = [inner |-> "None", work |-> DecoderWork_new]

ModReturned(op, value) ==
  /\ role = "Caller"
  /\ phase = "Calling"
  /\ phase' = "Returned"
  /\ last' = [op |-> op, ret |-> Ok, fresh_ret |-> Ok, value |-> value]
  /\ UNCHANGED <<tables, role, rate, self, iter, given, config, boundary, rounds,
               previous, fresh>>

AddMod == ModReturned("add_mod", add_mod(given.x, given.y))

SubMod == ModReturned("sub_mod", sub_mod(given.x, given.y))

ModNext ==
  \/ AddMod
  \/ SubMod

ModSpec == ModInit /\ [][ModNext]_vars

\* s + (s >> GF_BITS) computed in twice the width of a field element and
\* cut to a field element
DoubleWidthFold(s) ==
  LET wide == s % (GF_ORDER * GF_ORDER)
  IN ((wide + (wide \div GF_ORDER)) % (GF_ORDER * GF_ORDER)) % GF_ORDER

\* C30: for all field elements x and y, add_mod(x, y) is congruent to
\* x + y and sub_mod(x, y) to x - y modulo GF_MODULUS, both being field
\* elements in 0..GF_MODULUS in which GF_MODULUS and 0 stand for the same
\* residue; the computation in the machine word gives the same element as
\* s + (s >> GF_BITS) computed in twice the width of a field element.
C30_ModularAddSub ==
  /\ OperationReturned("add_mod") =>
       /\ last.value \in 0..GF_MODULUS
       /\ last.value % GF_MODULUS = (given.x + given.y) % GF_MODULUS
       /\ last.value = DoubleWidthFold(given.x + given.y)
  /\ OperationReturned("sub_mod") =>
       /\ last.value \in 0..GF_MODULUS
       /\ last.value % GF_MODULUS = (given.x - given.y) % GF_MODULUS
       /\ last.value = DoubleWidthFold(given.x - given.y)

\* sub_mod(0, GF_MODULUS): the difference wrapped in the machine word, and
\* the result is 0, the residue of -GF_MODULUS
C30_Witness ==
  /\ OperationReturned("sub_mod")
  /\ given.x = 0
  /\ given.y = GF_MODULUS
  /\ (given.x - given.y) % WordModulus > GF_MODULUS
  /\ last.value = 0

====
